---- MODULE Spec2Model ----
(***************************************************************************)
(* ChainSage proxy: one request through exports.handler, in the provider   *)
(* variants the repository holds (Flipside V2 JSON-RPC, Flipside ShroomDK, *)
(* Covalent, Mobula).  A step of the model is the code that runs between   *)
(* two suspension points (await): the reply of the awaited external call   *)
(* is drawn from a finite set, and the handler runs on to the next await   *)
(* or to its return.                                                       *)
(*                                                                         *)
(* Text is kept as TLA+ strings and handled with the string operations the *)
(* code uses (trim, startsWith, replace, substring, template literals).    *)
(***************************************************************************)
EXTENDS Integers, Sequences, FiniteSets, TLC

(***************************************************************************)
(* Bounds of the model.                                                    *)
(***************************************************************************)
\* the time a slow external call takes, and the lag of a late timer, in ms: one
\* slow poll and one poll interval bring the clock to the ceiling exactly
MaxCallTime == 117000
\* how many calls and timers of one request are slow or late
MaxSlowCalls == 1
\* Spec: the job leaves the pending class within this many polls
MaxPolls == 3

(***************************************************************************)
(* Program constants.                                                      *)
(***************************************************************************)
FLIPSIDE_EXECUTION_POLL_INTERVAL == 3000
FLIPSIDE_EXECUTION_MAX_WAIT_TIME == 120000
MAX_DATA_LENGTH == 5000
SAMPLE_ROWS == 50
MIN_SQL_LENGTH == 5
BODY_PREFIX_LENGTH == 200

(***************************************************************************)
(* JavaScript strings.                                                     *)
(***************************************************************************)
\* the backtick character (a string literal cannot hold it on its own)
BT == SubSeq("`'", 1, 1)
Fence == BT \o BT \o BT

CharAt(s, i) == SubSeq(s, i, i)

IsSpace(c) == c \in {" ", "\n", "\t", "\r"}

RECURSIVE TrimStart(_)
TrimStart(s) ==
    IF Len(s) > 0 /\ IsSpace(CharAt(s, 1)) THEN TrimStart(SubSeq(s, 2, Len(s))) ELSE s

RECURSIVE TrimEnd(_)
TrimEnd(s) ==
    IF Len(s) > 0 /\ IsSpace(CharAt(s, Len(s))) THEN TrimEnd(SubSeq(s, 1, Len(s) - 1)) ELSE s

\* String.prototype.trim
Trim(s) == TrimEnd(TrimStart(s))

\* String.prototype.startsWith
StartsWith(s, p) == Len(s) >= Len(p) /\ SubSeq(s, 1, Len(p)) = p

EndsWith(s, p) == Len(s) >= Len(p) /\ SubSeq(s, Len(s) - Len(p) + 1, Len(s)) = p

\* String.prototype.includes
Includes(s, p) == \E i \in 1..(Len(s) - Len(p) + 1) : SubSeq(s, i, i + Len(p) - 1) = p

\* s.substring(0, n)
Substring0(s, n) == SubSeq(s, 1, IF Len(s) < n THEN Len(s) ELSE n)

\* s.replace(/^```sql\s*/i, '')
StripFenceStart(s) ==
    IF /\ Len(s) >= 6
       /\ SubSeq(s, 1, 3) = Fence
       /\ CharAt(s, 4) \in {"s", "S"}
       /\ CharAt(s, 5) \in {"q", "Q"}
       /\ CharAt(s, 6) \in {"l", "L"}
    THEN TrimStart(SubSeq(s, 7, Len(s)))
    ELSE s

\* s.replace(/```$/, '')
StripFenceEnd(s) == IF EndsWith(s, Fence) THEN SubSeq(s, 1, Len(s) - 3) ELSE s

\* sqlQuery.replace(/^```sql\s*/i, '').replace(/```$/, '').trim()
CleanSql(text) == Trim(StripFenceEnd(StripFenceStart(Trim(text))))

(***************************************************************************)
(* JavaScript values: a tag t, the text v of a primitive, and the items of *)
(* an array (values) or of an object (records k, val, in insertion order). *)
(***************************************************************************)
J(t, v, items) == [t |-> t, v |-> v, items |-> items]
Undefined == J("undefined", "", <<>>)
Null == J("null", "", <<>>)
Str(s) == J("string", s, <<>>)
Num(s) == J("number", s, <<>>)
Bool(s) == J("boolean", s, <<>>)
Arr(items) == J("array", "", items)
Object(fields) == J("object", "", fields)
F(k, val) == [k |-> k, val |-> val]

Nullish(x) == x.t \in {"undefined", "null"}

\* !x
Falsy(x) ==
    \/ Nullish(x)
    \/ x.t = "string" /\ x.v = ""
    \/ x.t = "number" /\ x.v = "0"
    \/ x.t = "boolean" /\ x.v = "false"

IsString(x) == x.t = "string"
IsArray(x) == x.t = "array"

RECURSIVE Lookup(_, _)
Lookup(fields, key) ==
    IF Len(fields) = 0 THEN Undefined
    ELSE IF Head(fields).k = key THEN Head(fields).val
    ELSE Lookup(Tail(fields), key)

\* x.key on a value that is neither null nor undefined
Get(x, key) == IF x.t = "object" THEN Lookup(x.items, key) ELSE Undefined

\* x?.key
OptGet(x, key) == IF Nullish(x) THEN Undefined ELSE Get(x, key)

\* x[0] on a value that is neither null nor undefined
First(x) ==
    IF x.t = "array" /\ Len(x.items) > 0 THEN x.items[1]
    ELSE IF x.t = "string" /\ Len(x.v) > 0 THEN Str(CharAt(x.v, 1))
    ELSE IF x.t = "object" THEN Lookup(x.items, "0")
    ELSE Undefined

\* x?.[0]
OptFirst(x) == IF Nullish(x) THEN Undefined ELSE First(x)

\* x.length > 0
LengthIsPositive(x) ==
    \/ x.t = "array" /\ Len(x.items) > 0
    \/ x.t = "string" /\ Len(x.v) > 0

\* Object.keys(x) on a value that is neither null nor undefined
ObjectKeys(x) ==
    CASE x.t = "object" -> Arr([i \in 1..Len(x.items) |-> Str(x.items[i].k)])
      [] x.t = "array" -> Arr([i \in 1..Len(x.items) |-> Str(ToString(i - 1))])
      [] x.t = "string" -> Arr([i \in 1..Len(x.v) |-> Str(ToString(i - 1))])
      [] OTHER -> Arr(<<>>)

\* items.slice(0, Math.min(items.length, n))
Slice(items, n) == SubSeq(items, 1, IF Len(items) < n THEN Len(items) ELSE n)

\* a || b
Or(a, b) == IF Falsy(a) THEN b ELSE a

\* the message of the TypeError a property read of null or undefined throws
TypeErrorMessage(x, key) ==
    "Cannot read properties of " \o x.t \o " (reading '" \o key \o "')"

RECURSIVE JoinStr(_)
\* `${x}`: the string conversion of a template literal
ToStr(x) ==
    CASE x.t = "undefined" -> "undefined"
      [] x.t = "null" -> "null"
      [] x.t = "object" -> "[object Object]"
      [] x.t = "array" -> JoinStr(x.items)
      [] OTHER -> x.v
JoinStr(items) ==
    IF Len(items) = 0 THEN ""
    ELSE (IF Nullish(Head(items)) THEN "" ELSE ToStr(Head(items)))
         \o (IF Len(items) > 1 THEN "," \o JoinStr(Tail(items)) ELSE "")

\* the escape JSON.stringify applies to one character
EscapeChar(c) ==
    CASE c = "\"" -> "\\\""
      [] c = "\\" -> "\\\\"
      [] c = "\n" -> "\\n"
      [] c = "\t" -> "\\t"
      [] c = "\r" -> "\\r"
      [] OTHER -> c

RECURSIVE Escape(_)
\* the escapes JSON.stringify applies inside a string (the string is halved
\* to keep the nesting shallow)
Escape(s) ==
    IF s = "" THEN ""
    ELSE IF Len(s) = 1 THEN EscapeChar(s)
    ELSE LET half == Len(s) \div 2
         IN Escape(SubSeq(s, 1, half)) \o Escape(SubSeq(s, half + 1, Len(s)))

Quote(s) == "\"" \o Escape(s) \o "\""

RECURSIVE Stringify(_)
RECURSIVE StringifyItems(_)
RECURSIVE StringifyFields(_, _)
\* JSON.stringify(x), for x other than undefined
Stringify(x) ==
    CASE x.t = "string" -> Quote(x.v)
      [] x.t = "array" -> "[" \o StringifyItems(x.items) \o "]"
      [] x.t = "object" -> "{" \o StringifyFields(x.items, TRUE) \o "}"
      [] x.t \in {"null", "undefined"} -> "null"
      [] OTHER -> x.v
\* the items joined by commas (the sequence is halved to keep the nesting shallow)
StringifyItems(items) ==
    IF Len(items) = 0 THEN ""
    ELSE IF Len(items) = 1 THEN Stringify(items[1])
    ELSE LET half == Len(items) \div 2
         IN StringifyItems(SubSeq(items, 1, half)) \o ","
                \o StringifyItems(SubSeq(items, half + 1, Len(items)))
\* a field whose value is undefined is left out
StringifyFields(fields, first) ==
    IF Len(fields) = 0 THEN ""
    ELSE IF Head(fields).val.t = "undefined" THEN StringifyFields(Tail(fields), first)
    ELSE (IF first THEN "" ELSE ",") \o Quote(Head(fields).k) \o ":"
         \o Stringify(Head(fields).val) \o StringifyFields(Tail(fields), FALSE)

(***************************************************************************)
(* Text on the wire: the raw text, whether JSON.parse accepts it, and the  *)
(* value it then yields.                                                   *)
(***************************************************************************)
JsonText(data) == [json |-> TRUE, data |-> data, text |-> ""]
PlainText(raw) == [json |-> FALSE, data |-> Undefined, text |-> raw]

\* the raw text
Raw(w) == IF w.json THEN Stringify(w.data) ELSE w.text

\* the message of the SyntaxError JSON.parse throws on text it rejects
SyntaxErrorMessage(raw) ==
    IF raw = "" THEN "Unexpected end of JSON input"
    ELSE "Unexpected token " \o CharAt(raw, 1) \o " in JSON at position 0"

(***************************************************************************)
(* The inbound event.                                                      *)
(***************************************************************************)
Question1 == "What is the ETH balance of address 0xabc?"

Methods == {"POST", "GET", "OPTIONS", "post"}

Variants == {"FlipsideV2", "ShroomDK", "Covalent", "Mobula"}

\* event.body: null, undefined, or text
Bodies == 1..18
EventBody(n) ==
    CASE n = 1 -> [kind |-> "null", w |-> PlainText("")]
      [] n = 2 -> [kind |-> "undefined", w |-> PlainText("")]
      [] n = 3 -> [kind |-> "text", w |-> PlainText("")]
      [] n = 4 -> [kind |-> "text", w |-> PlainText("{question: ")]
      [] n = 5 -> [kind |-> "text", w |-> JsonText(Null)]
      [] n = 6 -> [kind |-> "text", w |-> JsonText(Num("42"))]
      [] n = 7 -> [kind |-> "text", w |-> JsonText(Str(Question1))]
      [] n = 8 -> [kind |-> "text", w |-> JsonText(Arr(<<>>))]
      [] n = 9 -> [kind |-> "text", w |-> JsonText(Object(<<>>))]
      [] n = 10 -> [kind |-> "text", w |-> JsonText(Object(<<
                      F("history", Arr(<<Object(<<F("role", Str("user")),
                                                  F("content", Str(Question1))>>)>>))>>))]
      [] n = 11 -> [kind |-> "text", w |-> JsonText(Object(<<F("question", Null)>>))]
      [] n = 12 -> [kind |-> "text", w |-> JsonText(Object(<<F("question", Str(""))>>))]
      [] n = 13 -> [kind |-> "text", w |-> JsonText(Object(<<F("question", Str("  \n"))>>))]
      [] n = 14 -> [kind |-> "text", w |-> JsonText(Object(<<F("question", Num("0"))>>))]
      [] n = 15 -> [kind |-> "text", w |-> JsonText(Object(<<F("question", Num("7"))>>))]
      [] n = 16 -> [kind |-> "text", w |-> JsonText(Object(<<F("question", Bool("true"))>>))]
      [] n = 17 -> [kind |-> "text", w |-> JsonText(Object(<<
                      F("question", Arr(<<Str(Question1)>>))>>))]
      [] n = 18 -> [kind |-> "text", w |-> JsonText(Object(<<F("question", Str(Question1))>>))]

\* const body = JSON.parse(event.body); question = body.question;
\* threw: JSON.parse or the property read threw
ParseBody(b) ==
    LET parsed == IF b.kind = "null" THEN [ok |-> TRUE, data |-> Null]
                  ELSE IF b.kind = "undefined" \/ ~b.w.json THEN [ok |-> FALSE, data |-> Undefined]
                  ELSE [ok |-> TRUE, data |-> b.w.data]
    IN IF ~parsed.ok \/ Nullish(parsed.data)
       THEN [threw |-> TRUE, question |-> Undefined]
       ELSE [threw |-> FALSE, question |-> Get(parsed.data, "question")]

\* the check without its trim: !question || typeof question !== 'string'
InvalidQuestionUntrimmed(q) == Falsy(q) \/ q.t # "string"

\* !question || typeof question !== 'string' || question.trim() === ''
InvalidQuestion(q) == Falsy(q) \/ q.t # "string" \/ Trim(q.v) = ""

(***************************************************************************)
(* What fetch() yields: the promise rejects (net = FALSE), or a response   *)
(* with a status, a status text and a body.                                *)
(***************************************************************************)
NetFail == [net |-> FALSE, status |-> 0, statusText |-> "", w |-> PlainText("")]
Http(status, statusText, w) == [net |-> TRUE, status |-> status, statusText |-> statusText, w |-> w]
Ok200(data) == Http(200, "OK", JsonText(data))

\* response.ok
ResponseOk(r) == r.status >= 200 /\ r.status <= 299

FetchFailedMessage == "fetch failed"
BodyUsedMessage == "Body is unusable"

\* the failing responses every service can give
Failures == 1..7
Failure(n) ==
    CASE n = 1 -> NetFail
      [] n = 2 -> Http(500, "Internal Server Error",
                       JsonText(Object(<<F("message", Str("upstream exploded at node-7"))>>)))
      [] n = 3 -> Http(401, "Unauthorized",
                       JsonText(Object(<<F("error", Str("invalid api key sk-123"))>>)))
      [] n = 4 -> Http(429, "Too Many Requests", PlainText("<html>slow down</html>"))
      [] n = 5 -> Http(503, "Service Unavailable", PlainText(""))
      [] n = 6 -> Http(502, "", JsonText(Object(<<F("detail", Str("bad gateway"))>>)))
      [] n = 7 -> Http(200, "OK", PlainText("<html>maintenance</html>"))

\* what a call yields: it threw (message, and the service and status the error
\* carries, "" and 0 when it carries none), or it returned data
Thrown(message, service, status) ==
    [threw |-> TRUE, message |-> message, service |-> service, status |-> status, data |-> Undefined]
Returned(data) ==
    [threw |-> FALSE, message |-> "", service |-> "", status |-> 0, data |-> data]

\* fetchApi's catch block for an error without .service (body text kept for the message)
WrapWithBody(serviceName, message, responseBodyText) ==
    Thrown("API call failed to " \o serviceName \o ": " \o message
               \o (IF responseBodyText # ""
                   THEN " Body: " \o Substring0(responseBodyText, BODY_PREFIX_LENGTH) \o "..."
                   ELSE ""),
           "", 0)

\* fetchApi's catch block for an error without .service
Wrap(serviceName, message) ==
    Thrown("API call failed to " \o serviceName \o ": " \o message, "", 0)

\* the error thrown without the code of the error object
JsonRpcErrorWithoutCode(e, serviceName) ==
    [message |-> "JSON-RPC Error: " \o ToStr(Get(e, "message")),
     code |-> Undefined, data |-> Get(e, "data"), service |-> serviceName]

\* new Error(`JSON-RPC Error ${data.error.code}: ${data.error.message}`), with
\* the properties code, data and service set on it
JsonRpcError(e, serviceName) ==
    [message |-> "JSON-RPC Error " \o ToStr(Get(e, "code")) \o ": " \o ToStr(Get(e, "message")),
     code |-> Get(e, "code"), data |-> Get(e, "data"), service |-> serviceName]

\* fetchApi of the Flipside V2 function; rpc: the JSON-RPC error check is present
FetchApiText(r, serviceName, rpc) ==
    IF ~r.net THEN WrapWithBody(serviceName, FetchFailedMessage, "")
    ELSE IF ~ResponseOk(r)
    THEN LET errorBody == IF r.w.json THEN r.w.data ELSE Str(Raw(r.w))
             detail == Or(Or(Or(Or(OptGet(errorBody, "message"), OptGet(errorBody, "error")),
                                Str(Raw(r.w))), Str(r.statusText)), Str("Unknown error"))
         IN Thrown("Error " \o ToString(r.status) \o " from " \o serviceName \o ": "
                       \o ToStr(detail),
                   serviceName, r.status)
    ELSE IF ~r.w.json THEN WrapWithBody(serviceName, SyntaxErrorMessage(Raw(r.w)), Raw(r.w))
    ELSE IF ~rpc THEN Returned(r.w.data)
    ELSE IF Nullish(r.w.data)
    THEN WrapWithBody(serviceName, TypeErrorMessage(r.w.data, "error"), Raw(r.w))
    ELSE IF ~Falsy(Get(r.w.data, "error"))
    THEN LET jsonRpcError == JsonRpcError(Get(r.w.data, "error"), serviceName)
         IN Thrown(jsonRpcError.message, jsonRpcError.service, 0)
    ELSE Returned(r.w.data)

FetchApiV2(r, serviceName) == FetchApiText(r, serviceName, TRUE)

FetchApiMobula(r, serviceName) == FetchApiText(r, serviceName, FALSE)

\* fetchApi of the ShroomDK and Covalent functions: the body is read with
\* response.json(), and again with response.text() when that fails;
\* errorFirst: errorBody.error is tried before errorBody.message
FetchApiJson(r, serviceName, errorFirst) ==
    IF ~r.net THEN Wrap(serviceName, FetchFailedMessage)
    ELSE IF ~ResponseOk(r)
    THEN IF ~r.w.json THEN Wrap(serviceName, BodyUsedMessage)
         ELSE IF Nullish(r.w.data)
         THEN Wrap(serviceName,
                   TypeErrorMessage(r.w.data, IF errorFirst THEN "error" ELSE "message"))
         ELSE LET m == Get(r.w.data, "message")
                  e == Get(r.w.data, "error")
                  detail == Or(Or(IF errorFirst THEN Or(e, m) ELSE Or(m, e), Str(r.statusText)),
                               Str("Unknown error"))
              IN Thrown("Error " \o ToString(r.status) \o " from " \o serviceName \o ": "
                            \o ToStr(detail),
                        serviceName, r.status)
    ELSE IF ~r.w.json THEN Wrap(serviceName, SyntaxErrorMessage(Raw(r.w)))
    ELSE Returned(r.w.data)

FetchApiShroom(r, serviceName) == FetchApiJson(r, serviceName, FALSE)

FetchApiCovalent(r, serviceName) == FetchApiJson(r, serviceName, TRUE)

\* the fetchApi of each function
FetchApi(variant, r, serviceName) ==
    CASE variant = "FlipsideV2" -> FetchApiV2(r, serviceName)
      [] variant = "ShroomDK" -> FetchApiShroom(r, serviceName)
      [] variant = "Covalent" -> FetchApiCovalent(r, serviceName)
      [] variant = "Mobula" -> FetchApiMobula(r, serviceName)

(***************************************************************************)
(* The LLM capability.                                                     *)
(***************************************************************************)
Throw(message) == Thrown(message, "", 0)

\* the response body that carries text at candidates[0].content.parts[0].text
Candidates(part) ==
    Object(<<F("candidates", Arr(<<Object(<<F("content",
                Object(<<F("parts", Arr(<<part>>))>>))>>)>>))>>)
GeminiText(text) == Candidates(Object(<<F("text", Str(text))>>))

\* data?.candidates?.[0]?.content?.parts?.[0]?.text
OptionalText(data) ==
    OptGet(OptFirst(OptGet(OptGet(OptFirst(OptGet(data, "candidates")), "content"), "parts")),
           "text")

NotAFunctionMessage == "data.candidates[0].content.parts[0].text.trim is not a function"

\* the text of a response, read through optional chaining; invalid: the
\* message thrown when there is none
TextOptional(data, invalid) ==
    LET text == OptionalText(data)
    IN IF Falsy(text) THEN Throw(invalid)
       ELSE IF ~IsString(text) THEN Throw(NotAFunctionMessage)
       ELSE Returned(text)

\* x.length === 0
LengthIsZero(x) ==
    \/ IsArray(x) /\ Len(x.items) = 0
    \/ IsString(x) /\ x.v = ""

\* if (!data.candidates || data.candidates.length === 0 || !data.candidates[0].content
\*     || !data.candidates[0].content.parts || data.candidates[0].content.parts.length === 0)
\*   throw ...;  data.candidates[0].content.parts[0].text.trim()
TextStrict(data, invalid) ==
    IF Nullish(data) THEN Throw(TypeErrorMessage(data, "candidates"))
    ELSE LET c == Get(data, "candidates")
         IN IF Falsy(c) \/ LengthIsZero(c) THEN Throw(invalid)
            ELSE IF Nullish(First(c)) THEN Throw(TypeErrorMessage(First(c), "content"))
            ELSE LET content == Get(First(c), "content")
                 IN IF Falsy(content) THEN Throw(invalid)
                    ELSE LET parts == Get(content, "parts")
                         IN IF Falsy(parts) \/ LengthIsZero(parts) THEN Throw(invalid)
                            ELSE IF Nullish(First(parts))
                            THEN Throw(TypeErrorMessage(First(parts), "text"))
                            ELSE LET text == Get(First(parts), "text")
                                 IN IF Nullish(text) THEN Throw(TypeErrorMessage(text, "trim"))
                                    ELSE IF ~IsString(text) THEN Throw(NotAFunctionMessage)
                                    ELSE Returned(text)

(***************************************************************************)
(* Query Generator: convertNLtoSQL.                                        *)
(***************************************************************************)
InvalidNLtoSQL == "Received invalid response structure from Gemini (NL to SQL)."
CouldNotFormulate == "Gemini could not formulate a SQL query for the question."

\* the check with its length test off by one: sqlQuery.length < 4
UnusableBelowFour(sqlQuery) == StartsWith(sqlQuery, "ERROR:") \/ Len(sqlQuery) < MIN_SQL_LENGTH - 1

\* sqlQuery.startsWith("ERROR:") || sqlQuery.length < 5
Unusable(sqlQuery) == StartsWith(sqlQuery, "ERROR:") \/ Len(sqlQuery) < MIN_SQL_LENGTH

\* from the text of the model to the query, or the generation error
CheckedSql(text) ==
    IF text.threw THEN text
    ELSE LET sqlQuery == CleanSql(text.data.v)
         IN IF Unusable(sqlQuery) THEN Throw(CouldNotFormulate) ELSE Returned(Str(sqlQuery))

ConvertNLtoSQL(variant, r) ==
    LET f == FetchApi(variant, r, "Gemini (NL to SQL)")
    IN IF f.threw THEN f
       ELSE IF variant = "FlipsideV2" THEN CheckedSql(TextOptional(f.data, InvalidNLtoSQL))
       ELSE CheckedSql(TextStrict(f.data, InvalidNLtoSQL))

(***************************************************************************)
(* Query Executor, asynchronous-job variant.                               *)
(***************************************************************************)
\* submitFlipsideQuery of the Flipside V2 function
SubmitV2(r) ==
    LET f == FetchApiV2(r, "Flipside (Submit Query)")
        extract == "Failed to submit query to Flipside: Could not extract queryRunId from response. Details: "
    IN IF f.threw THEN f
       ELSE LET result == Get(f.data, "result")
            IN IF Nullish(result) THEN Throw(extract \o TypeErrorMessage(result, "queryRun"))
               ELSE LET queryRun == Get(result, "queryRun")
                    IN IF Nullish(queryRun)
                       THEN Throw(extract \o TypeErrorMessage(queryRun, "queryRunId"))
                       ELSE LET queryRunId == Get(queryRun, "queryRunId")
                            IN IF IsString(queryRunId) /\ Len(queryRunId.v) > 0
                               THEN Returned(queryRunId)
                               ELSE Throw("Failed to submit query to Flipside: Invalid or empty queryRunId received.")

\* submitFlipsideQuery of the ShroomDK function
SubmitShroom(r) ==
    LET f == FetchApiShroom(r, "Flipside (Submit Query)")
    IN IF f.threw THEN f
       ELSE IF Falsy(f.data) \/ Falsy(Get(f.data, "query_id"))
       THEN Throw("Failed to submit query to Flipside: Invalid response.")
       ELSE Returned(Get(f.data, "query_id"))

SubmitFlipsideQuery(variant, r) == IF variant = "FlipsideV2" THEN SubmitV2(r) ELSE SubmitShroom(r)

\* getFlipsideQueryStatus of the Flipside V2 function
StatusV2(r) ==
    LET f == FetchApiV2(r, "Flipside (Get Status)")
    IN IF f.threw THEN f
       ELSE IF Falsy(OptGet(OptGet(f.data, "result"), "status"))
       THEN Throw("Failed to get query status from Flipside: Invalid response structure.")
       ELSE Returned(Get(Get(f.data, "result"), "status"))

\* getFlipsideQueryStatus of the ShroomDK function: fetch, not fetchApi (the
\* request is a GET with a body, which a fetch that follows the Fetch standard
\* rejects: the rejection is r.net = FALSE)
StatusShroom(r) ==
    IF ~r.net THEN Throw(FetchFailedMessage)
    ELSE IF ~ResponseOk(r)
    THEN Throw("Failed to get Flipside execution status (" \o ToString(r.status) \o ")")
    ELSE IF ~r.w.json THEN Throw(SyntaxErrorMessage(Raw(r.w)))
    ELSE IF Nullish(r.w.data) THEN Throw(TypeErrorMessage(r.w.data, "status"))
    ELSE Returned(Get(r.w.data, "status"))

GetFlipsideQueryStatus(variant, r) == IF variant = "FlipsideV2" THEN StatusV2(r) ELSE StatusShroom(r)

\* the statuses of the switch in waitForFlipsideExecution
SuccessStatus(variant) == IF variant = "FlipsideV2" THEN {"COMPLETED"} ELSE {"finished"}
FailureStatus(variant) == IF variant = "FlipsideV2" THEN {"FAILED", "CANCELLED"} ELSE {"failed"}
PendingStatus(variant) ==
    IF variant = "FlipsideV2" THEN {"RUNNING", "PENDING", "CANCELLING"} ELSE {"running", "pending"}
Vocabulary(variant) == SuccessStatus(variant) \cup FailureStatus(variant) \cup PendingStatus(variant)

\* case labels compare with ===
StatusIn(status, labels) == IsString(status) /\ status.v \in labels

TimedOutMessage ==
    "Flipside query execution timed out after "
        \o ToString(FLIPSIDE_EXECUTION_MAX_WAIT_TIME \div 1000) \o " seconds."

\* the check with >= for >
TimedOutAtTheCeiling(t, start) == t - start >= FLIPSIDE_EXECUTION_MAX_WAIT_TIME

\* Date.now() - startTime > FLIPSIDE_EXECUTION_MAX_WAIT_TIME
TimedOut(t, start) == t - start > FLIPSIDE_EXECUTION_MAX_WAIT_TIME

\* the message of the failure status, reworded
FailedMessageReworded == "Flipside query execution did not succeed."
FailedMessage == "Flipside query execution failed."
CancelledMessage == "Flipside query execution was cancelled."
UnknownStatusMessage(status) ==
    "Encountered unknown Flipside execution status: " \o ToStr(status)

\* the switch with CANCELLING among the cases that throw
SwitchV2CancellingFails(status) ==
    IF StatusIn(status, {"COMPLETED"}) THEN [next |-> "return", message |-> ""]
    ELSE IF StatusIn(status, {"FAILED"}) THEN [next |-> "throw", message |-> FailedMessage]
    ELSE IF StatusIn(status, {"CANCELLED", "CANCELLING"})
    THEN [next |-> "throw", message |-> CancelledMessage]
    ELSE IF StatusIn(status, {"RUNNING", "PENDING"}) THEN [next |-> "break", message |-> ""]
    ELSE [next |-> "throw", message |-> UnknownStatusMessage(status)]

\* the switch with a default branch that goes on polling
SwitchV2PollingOn(status) ==
    IF StatusIn(status, {"COMPLETED"}) THEN [next |-> "return", message |-> ""]
    ELSE IF StatusIn(status, {"FAILED"}) THEN [next |-> "throw", message |-> FailedMessage]
    ELSE IF StatusIn(status, {"CANCELLED"}) THEN [next |-> "throw", message |-> CancelledMessage]
    ELSE [next |-> "break", message |-> ""]

\* the switch of the Flipside V2 function; next: "return", "throw" or "break"
SwitchV2(status) ==
    IF StatusIn(status, {"COMPLETED"}) THEN [next |-> "return", message |-> ""]
    ELSE IF StatusIn(status, {"FAILED"}) THEN [next |-> "throw", message |-> FailedMessage]
    ELSE IF StatusIn(status, {"CANCELLED"}) THEN [next |-> "throw", message |-> CancelledMessage]
    ELSE IF StatusIn(status, {"RUNNING", "PENDING", "CANCELLING"})
    THEN [next |-> "break", message |-> ""]
    ELSE [next |-> "throw", message |-> UnknownStatusMessage(status)]

\* a switch of the ShroomDK function that returns on a status it does not know
SwitchShroomReturningByDefault(status) ==
    IF StatusIn(status, {"failed"}) THEN [next |-> "throw", message |-> FailedMessage]
    ELSE IF StatusIn(status, {"running", "pending"}) THEN [next |-> "break", message |-> ""]
    ELSE [next |-> "return", message |-> ""]

\* the switch of the ShroomDK function
SwitchShroom(status) ==
    IF StatusIn(status, {"finished"}) THEN [next |-> "return", message |-> ""]
    ELSE IF StatusIn(status, {"failed"}) THEN [next |-> "throw", message |-> FailedMessage]
    ELSE IF StatusIn(status, {"running", "pending"}) THEN [next |-> "break", message |-> ""]
    ELSE [next |-> "throw", message |-> UnknownStatusMessage(status)]

Switch(variant, status) == IF variant = "FlipsideV2" THEN SwitchV2(status) ELSE SwitchShroom(status)

\* catch (error) { throw new Error(`Polling error for Flipside execution ${queryRunId}: ...`) }
PollingError(queryRunId, message) ==
    "Polling error for Flipside execution " \o ToStr(queryRunId) \o ": " \o message

\* the turn of the loop that goes on to the wait when the status call throws
PollRetrying(variant, queryRunId, r) ==
    LET st == GetFlipsideQueryStatus(variant, r)
    IN IF st.threw
       THEN [next |-> "break", message |-> "", status |-> Undefined]
       ELSE LET sw == Switch(variant, st.data)
            IN [next |-> sw.next,
                message |-> IF sw.next = "throw" THEN PollingError(queryRunId, sw.message) ELSE "",
                status |-> st.data]

\* the try block of one turn of the loop of waitForFlipsideExecution
Poll(variant, queryRunId, r) ==
    LET st == GetFlipsideQueryStatus(variant, r)
    IN IF st.threw
       THEN [next |-> "throw", message |-> PollingError(queryRunId, st.message), status |-> Undefined]
       ELSE LET sw == Switch(variant, st.data)
            IN [next |-> sw.next,
                message |-> IF sw.next = "throw" THEN PollingError(queryRunId, sw.message) ELSE "",
                status |-> st.data]

(***************************************************************************)
(* Result Normalizer: getFlipsideQueryResults.                             *)
(***************************************************************************)
ResultSet(columnNames, rows) == Object(<<F("columnNames", columnNames), F("rows", rows)>>)
EmptyResultSet == ResultSet(Arr(<<>>), Arr(<<>>))

ObjectKeysOfNullMessage == "Cannot convert undefined or null to object"

\* a normalization that infers no column names
NormalizeV2WithoutInference(data) ==
    LET rows == OptGet(OptGet(data, "result"), "rows")
        columnNames == OptGet(OptGet(data, "result"), "columnNames")
    IN IF Falsy(rows) THEN Returned(EmptyResultSet)
       ELSE IF Falsy(columnNames) THEN Returned(ResultSet(Arr(<<>>), rows))
       ELSE Returned(ResultSet(columnNames, rows))

\* getFlipsideQueryResults of the Flipside V2 function, after its fetchApi: from
\* data.result.rows and data.result.columnNames to { columnNames, rows }
NormalizeV2(data) ==
    LET rows == OptGet(OptGet(data, "result"), "rows")
        columnNames == OptGet(OptGet(data, "result"), "columnNames")
    IN IF Falsy(rows) THEN Returned(EmptyResultSet)
       ELSE IF Falsy(columnNames)
       THEN IF LengthIsPositive(rows)
            THEN IF Nullish(First(rows)) THEN Throw(ObjectKeysOfNullMessage)
                 ELSE Returned(ResultSet(ObjectKeys(First(rows)), rows))
            ELSE Returned(EmptyResultSet)
       ELSE Returned(ResultSet(columnNames, rows))

\* getFlipsideQueryResults of the Flipside V2 function
ResultsV2(r) ==
    LET f == FetchApiV2(r, "Flipside (Get Results)")
    IN IF f.threw THEN f ELSE NormalizeV2(f.data)

\* getFlipsideQueryResults of the ShroomDK function
ResultsShroom(r) ==
    LET f == FetchApiShroom(r, "Flipside (Get Results)")
    IN IF f.threw THEN f
       ELSE IF ~Falsy(f.data) /\ ~Falsy(Get(f.data, "results"))
       THEN Returned(Get(f.data, "results"))
       ELSE Returned(Arr(<<>>))

GetFlipsideQueryResults(variant, r) == IF variant = "FlipsideV2" THEN ResultsV2(r) ELSE ResultsShroom(r)

(***************************************************************************)
(* Summarizer.                                                             *)
(***************************************************************************)
\* jsonData.substring(0, MAX_DATA_LENGTH) + "..."
Truncated(jsonData) == Str(Substring0(jsonData, MAX_DATA_LENGTH) \o "...")

TooLarge(data) == Len(Stringify(data)) > MAX_DATA_LENGTH

\* the sampling that keeps the rows and leaves the column names out
SampleV2WithoutColumnNames(flipsideData) ==
    IF TooLarge(flipsideData)
    THEN IF IsArray(Get(flipsideData, "rows"))
         THEN ResultSet(Arr(<<>>), Arr(Slice(Get(flipsideData, "rows").items, SAMPLE_ROWS)))
         ELSE Truncated(Stringify(flipsideData))
    ELSE flipsideData

\* the sampling of summarizeFlipsideData (Flipside V2)
SampleV2(flipsideData) ==
    IF TooLarge(flipsideData)
    THEN IF IsArray(Get(flipsideData, "rows"))
         THEN ResultSet(Get(flipsideData, "columnNames"),
                        Arr(Slice(Get(flipsideData, "rows").items, SAMPLE_ROWS)))
         ELSE Truncated(Stringify(flipsideData))
    ELSE flipsideData

\* the sampling of summarizeFlipsideData (ShroomDK)
SampleShroom(flipsideData) ==
    IF TooLarge(flipsideData)
    THEN IF IsArray(flipsideData) THEN Arr(Slice(flipsideData.items, SAMPLE_ROWS))
         ELSE Truncated(Stringify(flipsideData))
    ELSE flipsideData

RECURSIVE WithItems(_, _, _)
\* { ...fields, items: items }
WithItems(fields, items, seen) ==
    IF Len(fields) = 0 THEN IF seen THEN <<>> ELSE <<F("items", items)>>
    ELSE IF Head(fields).k = "items" THEN <<F("items", items)>> \o WithItems(Tail(fields), items, TRUE)
    ELSE <<Head(fields)>> \o WithItems(Tail(fields), items, seen)

\* the sampling of summarizeCovalentData
SampleCovalent(covalentData) ==
    IF TooLarge(covalentData)
    THEN IF IsArray(OptGet(covalentData, "items"))
         THEN Object(WithItems(covalentData.items,
                               Arr(Slice(Get(covalentData, "items").items, SAMPLE_ROWS)), FALSE))
         ELSE Truncated(Stringify(covalentData))
    ELSE covalentData

\* what the summarizer puts into its prompt
DataToSend(variant, data) ==
    CASE variant = "FlipsideV2" -> SampleV2(data)
      [] variant = "ShroomDK" -> SampleShroom(data)
      [] variant = "Covalent" -> SampleCovalent(data)
      [] variant = "Mobula" -> Str(Stringify(data))

\* if (!dataToSend || (Array.isArray(dataToSend.rows) && dataToSend.rows.length === 0))
NoData(variant, dataToSend) ==
    CASE variant = "FlipsideV2" ->
            \/ Falsy(dataToSend)
            \/ IsArray(Get(dataToSend, "rows")) /\ Len(Get(dataToSend, "rows").items) = 0
      [] variant = "ShroomDK" ->
            \/ Falsy(dataToSend)
            \/ IsArray(dataToSend) /\ Len(dataToSend.items) = 0
      [] variant = "Covalent" ->
            \/ Falsy(dataToSend)
            \/ IsArray(Get(dataToSend, "items")) /\ Len(Get(dataToSend, "items").items) = 0
      [] variant = "Mobula" -> FALSE

NoDataMessage(variant) ==
    IF variant = "Covalent" THEN "The query ran successfully but returned no data from Covalent."
    ELSE "The query ran successfully on Flipside but returned no data."

InvalidSummarization == "Received invalid response structure from Gemini during summarization."

\* from the text of the model to the insight
Trimmed(text) == IF text.threw THEN text ELSE Returned(Str(Trim(text.data.v)))

\* the check of the ShroomDK summarizer, which reads result[0] where the other
\* functions read result.candidates[0]
TextShroom(result) ==
    IF Nullish(result) THEN Throw(TypeErrorMessage(result, "candidates"))
    ELSE LET c == Get(result, "candidates")
         IN IF Falsy(c) \/ LengthIsZero(c) THEN Throw(InvalidSummarization)
            ELSE IF Nullish(First(result)) THEN Throw(TypeErrorMessage(First(result), "content"))
            ELSE LET content == Get(First(result), "content")
                 IN IF Falsy(content) THEN Throw(InvalidSummarization)
                    ELSE IF Falsy(Get(content, "parts")) \/ LengthIsZero(Get(content, "parts"))
                    THEN Throw(InvalidSummarization)
                    ELSE TextStrict(result, InvalidSummarization)

\* the summarizer after its call of the model
Summarize(variant, r) ==
    LET f == FetchApi(variant, r, "Gemini (Summarization)")
    IN IF f.threw THEN f
       ELSE CASE variant \in {"FlipsideV2", "Mobula"} ->
                    Trimmed(TextOptional(f.data, InvalidSummarization))
              [] variant = "ShroomDK" -> Trimmed(TextShroom(f.data))
              [] variant = "Covalent" -> Trimmed(TextStrict(f.data, InvalidSummarization))

(***************************************************************************)
(* Endpoint selection: the Covalent and Mobula generators.                 *)
(***************************************************************************)
\* JSON.parse(s), where inner is the JSON text the model wrote, if it wrote one:
\* s parses when it is that text, surrounding white space aside
ParseText(s, inner) ==
    IF inner.json /\ Trim(s) = Raw(inner) THEN [ok |-> TRUE, data |-> inner.data]
    ELSE [ok |-> FALSE, data |-> Undefined]

\* s.replace(/^```json\s*/i, '')
StripJsonFenceStart(s) ==
    IF /\ Len(s) >= 7
       /\ SubSeq(s, 1, 3) = Fence
       /\ CharAt(s, 4) \in {"j", "J"}
       /\ CharAt(s, 5) \in {"s", "S"}
       /\ CharAt(s, 6) \in {"o", "O"}
       /\ CharAt(s, 7) \in {"n", "N"}
    THEN TrimStart(SubSeq(s, 8, Len(s)))
    ELSE s

\* jsonString.replace(/^```json\s*/i, '').replace(/```$/, '').trim()
CleanJson(text) == Trim(StripFenceEnd(StripJsonFenceStart(Trim(text))))

FenceOpen == Fence \o "json\n"
FenceClose == "\n" \o Fence

\* the places where p occurs in s
Occurrences(s, p) == {i \in 1..(Len(s) - Len(p) + 1) : SubSeq(s, i, i + Len(p) - 1) = p}

Least(S) == CHOOSE i \in S : \A j \in S : i <= j
Greatest(S) == CHOOSE i \in S : \A j \in S : i >= j

\* s.replace(/```json\n([\s\S]*)\n```/g, '$1'): the match starts at the first
\* opening fence and, the group being greedy, ends at the last closing fence
ReplaceJsonFence(s) ==
    LET opens == Occurrences(s, FenceOpen)
    IN IF opens = {} THEN s
       ELSE LET i == Least(opens)
                closes == {j \in Occurrences(s, FenceClose) : j >= i + Len(FenceOpen)}
            IN IF closes = {} THEN s
               ELSE LET j == Greatest(closes)
                    IN SubSeq(s, 1, i - 1) \o SubSeq(s, i + Len(FenceOpen), j - 1)
                           \o SubSeq(s, j + Len(FenceClose), Len(s))

InvalidMapping == "Received invalid response structure from Gemini (SQL to Covalent Mapping)."

\* mapSQLtoCovalentApi; every throw of its try block ends in the one catch
MapSQLtoCovalentApi(r, inner) ==
    LET f == FetchApiCovalent(r, "Gemini (SQL to Covalent Mapping)")
        text == TextStrict(f.data, InvalidMapping)
    IN IF f.threw THEN f
       ELSE IF text.threw THEN text
       ELSE LET jsonString == CleanJson(text.data.v)
                parsed == ParseText(jsonString, inner)
                mapping == parsed.data
                failed == Throw("Failed to interpret Covalent API mapping from Gemini. Response: "
                                    \o Substring0(jsonString, BODY_PREFIX_LENGTH) \o "...")
            IN IF ~parsed.ok \/ Nullish(mapping) THEN failed
               ELSE IF ~Falsy(Get(mapping, "error")) THEN failed
               ELSE IF \/ Falsy(Get(mapping, "endpoint"))
                       \/ Falsy(Get(mapping, "method"))
                       \/ Falsy(Get(mapping, "parameters"))
               THEN failed
               ELSE Returned(mapping)

\* if (covalentMapping.requires_address || covalentMapping.requires_contract || ...)
NeedsMore(mapping) ==
    \/ ~Falsy(Get(mapping, "requires_address"))
    \/ ~Falsy(Get(mapping, "requires_contract"))
    \/ ~Falsy(Get(mapping, "requires_token_id"))

\* a sentence that names the wallet address alone
MissingTheAddressOnly(mapping) ==
    IF ~Falsy(Get(mapping, "requires_address")) THEN "a wallet address" ELSE ""

\* missingParams.join(' and ')
Missing(mapping) ==
    LET a == IF ~Falsy(Get(mapping, "requires_address")) THEN <<"a wallet address">> ELSE <<>>
        c == IF ~Falsy(Get(mapping, "requires_contract")) THEN <<"a contract address">> ELSE <<>>
        t == IF ~Falsy(Get(mapping, "requires_token_id")) THEN <<"a token ID">> ELSE <<>>
        all == a \o c \o t
    IN CASE Len(all) = 1 -> all[1]
         [] Len(all) = 2 -> all[1] \o " and " \o all[2]
         [] Len(all) = 3 -> all[1] \o " and " \o all[2] \o " and " \o all[3]
         [] OTHER -> ""

NeedsMoreMessage(mapping) ==
    "The Oracle needs more information to answer that question. Please provide "
        \o Missing(mapping) \o "."

\* executeCovalentApiCall
ExecuteCovalentApiCall(mapping, r) ==
    LET f == FetchApiCovalent(r, "Covalent ("
                 \o ToStr(Or(Get(mapping, "description"), Get(mapping, "endpoint"))) \o ")")
    IN IF f.threw THEN f
       ELSE IF ~Falsy(f.data) /\ ~Falsy(Get(f.data, "data")) THEN Returned(Get(f.data, "data"))
       ELSE Returned(f.data)

InvalidEndpoint == "Received invalid response structure from Gemini (NL to Endpoint)."

\* the parsing that gives up when the strict parse fails
EndpointParseStrictOnly(text, inner) ==
    LET strict == ParseText(text, inner)
    IN [attempts |-> 1, ok |-> strict.ok, data |-> strict.data]

\* the try blocks of getModulaEndpointAndParams: JSON.parse of the trimmed text
\* and, in the catch block, JSON.parse of the text without its json fence;
\* attempts: the calls of JSON.parse made
EndpointParse(text, inner) ==
    LET strict == ParseText(text, inner)
        cleaned == ParseText(ReplaceJsonFence(text), inner)
    IN IF strict.ok THEN [attempts |-> 1, ok |-> TRUE, data |-> strict.data]
       ELSE [attempts |-> 2, ok |-> cleaned.ok, data |-> cleaned.data]

\* getModulaEndpointAndParams: a strict parse, then one parse of the cleaned text
GetModulaEndpointAndParams(r, inner) ==
    LET f == FetchApiMobula(r, "Gemini (NL to Endpoint)")
        text == TextOptional(f.data, InvalidEndpoint)
    IN IF f.threw THEN f
       ELSE IF text.threw THEN text
       ELSE LET geminiResponse == EndpointParse(Trim(text.data.v), inner)
            IN IF geminiResponse.ok THEN Returned(geminiResponse.data)
               ELSE Throw("Gemini output was not valid JSON.")

\* callModulaApi
CallModulaApi(r) == FetchApiMobula(r, "Modula")

\* the reads the Mobula handler makes of endpointData before it calls the
\* provider: .can_query, .endpoints[0], .endpoints[0].extracted_parameters
\* and, in callModulaApi, endpoint.path
EndpointReads(endpointData) ==
    IF Nullish(endpointData) THEN Throw(TypeErrorMessage(endpointData, "can_query"))
    ELSE IF Falsy(Get(endpointData, "can_query")) THEN Returned(Undefined)
    ELSE LET endpoints == Get(endpointData, "endpoints")
         IN IF Nullish(endpoints) THEN Throw(TypeErrorMessage(endpoints, "0"))
            ELSE IF Nullish(First(endpoints))
            THEN Throw(TypeErrorMessage(First(endpoints), "extracted_parameters"))
            ELSE Returned(First(endpoints))

(***************************************************************************)
(* The replies of the external services, by index.  Each is what fetch()   *)
(* yields; the replies past the last one a service has of its own are the  *)
(* failing responses.                                                      *)
(***************************************************************************)
\* a 200 response that carries a JSON-RPC error object
RpcError ==
    Ok200(Object(<<F("jsonrpc", Str("2.0")),
                   F("error", Object(<<F("code", Num("-32602")),
                                       F("message", Str("invalid params")),
                                       F("data", Str("sql is required"))>>))>>))

\* the responses of the model that carry no text
Textless(n) ==
    CASE n = 1 -> Ok200(Candidates(Object(<<>>)))
      [] n = 2 -> Ok200(Object(<<F("candidates", Arr(<<>>))>>))
      [] n = 3 -> Ok200(Object(<<F("promptFeedback", Object(<<F("blockReason", Str("SAFETY"))>>))>>))
      [] n = 4 -> Ok200(Null)
      [] n = 5 -> RpcError

\* own: the replies 1..last of the service itself; then Textless, then Failure
Reply(n, last, own) ==
    IF n <= last THEN own
    ELSE IF n <= last + 5 THEN Textless(n - last)
    ELSE Failure(n - last - 5)

SQL1 == "SELECT balance FROM balances WHERE address='0xabc'"

\* what the model writes when asked for SQL
SqlText(n) ==
    CASE n = 1 -> SQL1
      [] n = 2 -> Fence \o "sql\n" \o SQL1 \o "\n" \o Fence
      [] n = 3 -> Fence \o "\nSELECT 1\n" \o Fence
      [] n = 4 -> "ERROR: Cannot formulate query"
      [] n = 5 -> Fence \o "SQL\nERROR: no such table\n" \o Fence
      [] n = 6 -> " abcd "
      [] n = 7 -> "abcde"
      [] n = 8 -> "  \n"
      [] n = 9 -> ""
      [] OTHER -> ""
SqlReplies == 1..21
SqlReply(n) == Reply(n, 9, Ok200(GeminiText(SqlText(n))))

\* what the provider answers to the submission
Submitted(n) ==
    CASE n = 1 -> Object(<<F("result", Object(<<F("queryRun",
                        Object(<<F("queryRunId", Str("qr-1"))>>))>>)),
                           F("query_id", Str("qr-1"))>>)
      [] n = 2 -> Object(<<F("result", Object(<<F("queryRun",
                        Object(<<F("queryRunId", Str(""))>>))>>)),
                           F("query_id", Str(""))>>)
      [] n = 3 -> Object(<<F("result", Object(<<F("queryRun",
                        Object(<<F("queryRunId", Num("17"))>>))>>)),
                           F("query_id", Num("17"))>>)
      [] n = 4 -> Object(<<F("result", Object(<<F("queryRun", Null)>>))>>)
      [] n = 5 -> Object(<<F("result", Null)>>)
      [] OTHER -> Object(<<>>)
SubmitReplies == 1..18
SubmitReply(n) == Reply(n, 6, Ok200(Submitted(n)))

\* the statuses the provider reports
StatusText(n) ==
    CASE n = 1 -> "PENDING"
      [] n = 2 -> "RUNNING"
      [] n = 3 -> "CANCELLING"
      [] n = 4 -> "COMPLETED"
      [] n = 5 -> "FAILED"
      [] n = 6 -> "CANCELLED"
      [] n = 7 -> "pending"
      [] n = 8 -> "running"
      [] n = 9 -> "finished"
      [] n = 10 -> "failed"
      [] n = 11 -> "QUEUED"
      [] n = 12 -> "Completed"
      [] n = 13 -> ""
      [] OTHER -> ""
\* the status document, with the status where each function reads it
StatusDocument(status) ==
    Object(<<F("result", Object(<<F("status", status)>>)), F("status", status)>>)
StatusReplies == 1..27
StatusReply(n) ==
    Reply(n, 15, IF n <= 13 THEN Ok200(StatusDocument(Str(StatusText(n))))
                 ELSE IF n = 14 THEN Ok200(StatusDocument(Num("3")))
                 ELSE Ok200(Object(<<F("result", Object(<<>>))>>)))

\* one row of a result set
Row(i) ==
    Object(<<F("address", Str("0xabc")),
             F("balance", Str("4.2")),
             F("block_timestamp", Str("2024-01-01T00:00:00.000Z")),
             F("n", Num(ToString(i)))>>)
Rows(n) == Arr([i \in 1..n |-> Row(i)])
ColumnNames == Arr(<<Str("address"), Str("balance"), Str("block_timestamp"), Str("n")>>)

\* more rows than the summarizer samples, and more text than MAX_DATA_LENGTH
ManyRows == 70

\* the results document, with the rows where each function reads them
ResultsDocument(n) ==
    CASE n = 1 -> Object(<<F("result", Object(<<F("columnNames", ColumnNames),
                                                F("rows", Rows(1))>>)),
                           F("results", Rows(1))>>)
      [] n = 2 -> Object(<<F("result", Object(<<F("rows", Rows(2))>>)),
                           F("results", Rows(2))>>)
      [] n = 3 -> Object(<<F("result", Object(<<F("columnNames", ColumnNames),
                                                F("rows", Arr(<<>>))>>)),
                           F("results", Arr(<<>>))>>)
      [] n = 4 -> Object(<<F("result", Object(<<F("rows", Arr(<<>>))>>))>>)
      [] n = 5 -> Object(<<F("result", Object(<<F("rows", Arr(<<Null>>))>>)),
                           F("results", Arr(<<Null>>))>>)
      [] n = 6 -> Object(<<F("result", Object(<<F("columnNames", ColumnNames),
                                                F("rows", Rows(ManyRows))>>)),
                           F("results", Rows(ManyRows))>>)
      [] n = 7 -> Object(<<F("result", Object(<<F("rows", Str("none"))>>)),
                           F("results", Str("none"))>>)
      [] n = 8 -> Object(<<F("result", Object(<<F("columnNames", ColumnNames),
                                                F("rows", Object(<<F("page", Rows(ManyRows))>>))>>)),
                           F("results", Object(<<F("page", Rows(ManyRows))>>))>>)
      [] OTHER -> Object(<<>>)
ResultsReplies == 1..21
ResultsReply(n) == Reply(n, 9, Ok200(ResultsDocument(n)))

\* what the model writes when asked for a summary
SummaryText(n) ==
    CASE n = 1 -> "The address holds 4.2 ETH."
      [] n = 2 -> "  The address holds 4.2 ETH.\n"
      [] n = 3 -> " \n\t "
      [] OTHER -> ""
SummaryReplies == 1..16
SummaryReply(n) == Reply(n, 4, Ok200(GeminiText(SummaryText(n))))

\* the mappings the model writes for the Covalent function
Balances(extra) ==
    Object(<<F("endpoint", Str("/eth-mainnet/address/0xabc/balances_v2/")),
             F("method", Str("GET")),
             F("parameters", Object(<<F("nft", Bool("false"))>>)),
             F("description", Str("token balances of 0xabc"))>> \o extra)
MappingValue(n) ==
    CASE n \in {1, 2, 3} -> Balances(<<>>)
      [] n = 4 -> Balances(<<F("requires_address", Bool("true"))>>)
      [] n = 5 -> Balances(<<F("requires_address", Bool("true")),
                             F("requires_contract", Bool("true")),
                             F("requires_token_id", Bool("true"))>>)
      [] n = 6 -> Object(<<F("error", Str("unsupported")),
                           F("description", Str("no endpoint serves this question"))>>)
      [] n = 7 -> Object(<<F("endpoint", Str("/eth-mainnet/block_v2/latest/"))>>)
      [] n = 8 -> Object(<<F("endpoint", Str("/eth-mainnet/block_v2/latest/")),
                           F("method", Str("GET")),
                           F("parameters", Object(<<>>))>>)
      [] OTHER -> Null
\* the text around the JSON the model wrote
Wrapped(n, raw) ==
    CASE n = 2 -> Fence \o "json\n" \o raw \o "\n" \o Fence
      [] n = 3 -> "Here is the mapping:\n" \o Fence \o "json\n" \o raw \o "\n" \o Fence
      [] n = 10 -> "I cannot map this question."
      [] OTHER -> raw
MappingReplies == 1..22
MappingInner(n) == IF n = 10 THEN PlainText(Wrapped(n, "")) ELSE JsonText(MappingValue(n))
MappingReply(n) == Reply(n, 10, Ok200(GeminiText(Wrapped(n, Raw(MappingInner(n))))))

\* what Covalent answers
CovalentDocument(n) ==
    CASE n = 1 -> Object(<<F("data", Object(<<F("address", Str("0xabc")),
                                              F("items", Rows(1))>>)),
                           F("error", Bool("false"))>>)
      [] n = 2 -> Object(<<F("data", Object(<<F("address", Str("0xabc")),
                                              F("items", Arr(<<>>))>>)),
                           F("error", Bool("false"))>>)
      [] n = 3 -> Object(<<F("data", Object(<<F("address", Str("0xabc")),
                                              F("items", Rows(ManyRows))>>)),
                           F("error", Bool("false"))>>)
      [] n = 4 -> Object(<<F("data", Null), F("error", Bool("true")),
                           F("error_message", Str("backend queue full"))>>)
      [] n = 5 -> Object(<<F("items", Arr(<<>>))>>)
      [] n = 6 -> Object(<<F("data", Object(<<F("address", Str("0xabc")),
                                              F("balances", Rows(ManyRows))>>)),
                           F("error", Bool("false"))>>)
      [] OTHER -> Null
CovalentReplies == 1..19
CovalentReply(n) == Reply(n, 7, Ok200(CovalentDocument(n)))

\* the selections the model writes for the Mobula function
Market(extra) ==
    Object(<<F("can_query", Bool("true")),
             F("endpoints", Arr(<<Object(<<F("path", Str("/market/data")),
                                           F("extracted_parameters",
                                             Object(<<F("asset", Str("ETH"))>>))>> \o extra)>>))>>)
EndpointValue(n) ==
    CASE n \in {1, 2, 3} -> Market(<<>>)
      [] n = 4 -> Object(<<F("can_query", Bool("false")),
                           F("message", Str("I can only answer market questions."))>>)
      [] n = 5 -> Object(<<F("can_query", Bool("false"))>>)
      [] n = 6 -> Object(<<F("can_query", Bool("false")), F("message", Str(""))>>)
      [] n = 7 -> Object(<<F("can_query", Bool("false")), F("message", Num("42"))>>)
      [] n = 8 -> Object(<<F("can_query", Bool("true"))>>)
      [] n = 9 -> Object(<<F("can_query", Bool("true")), F("endpoints", Arr(<<>>))>>)
      [] n = 10 -> Num("42")
      [] OTHER -> Null
EndpointReplies == 1..24
EndpointInner(n) == IF n = 10 + 2 THEN PlainText("I cannot help.") ELSE JsonText(EndpointValue(n))
EndpointReply(n) ==
    Reply(n, 10 + 2, Ok200(GeminiText(IF n = 10 + 2 THEN Raw(EndpointInner(n))
                                      ELSE Wrapped(n, Raw(EndpointInner(n))))))

\* what Mobula answers
ModulaDocument(n) ==
    CASE n = 1 -> Object(<<F("data", Object(<<F("price", Num("1800")),
                                              F("symbol", Str("ETH"))>>))>>)
      [] n = 2 -> Object(<<F("error", Str("asset not found"))>>)
      [] OTHER -> Object(<<F("data", Arr(<<>>))>>)
ModulaReplies == 1..15
ModulaReply(n) == Reply(n, 3, Ok200(ModulaDocument(n)))

(***************************************************************************)
(* One request through exports.handler.                                    *)
(***************************************************************************)
VARIABLES
    variant,      \* which of the functions handles the request
    httpMethod,   \* event.httpMethod
    eventBody,    \* event.body, as an index of EventBody
    pc,           \* "start", the call the handler awaits, "timer", or "done"
    now,          \* Date.now()
    slow,         \* the calls and timers that were slow so far
    startTime,    \* waitForFlipsideExecution: startTime
    question, sqlQuery, queryRunId,
    selection,    \* covalentMapping (Covalent), endpointData (Mobula)
    data,         \* flipsideData, covalentData, modulaResponse
    dataToSend,   \* the summarizer's dataToSend
    calls,        \* the external calls issued so far, in order
    lastReply,    \* what fetch() yielded to the latest call that was answered
    lastStatus,   \* the status the latest poll returned
    observed,     \* how many statuses the polls returned so far
    errorMessage, \* error.message in the handler's catch block ("" before)
    response,     \* what the handler returned (statusCode 0 before)
    inv,          \* two invocations of the Flipside V2 handler in one process
    moduleScope,  \* the bindings at the top level of the module
    chatHistory,  \* spellbook.js: the conversation so far
    chatLog,      \* spellbook.js: the children of the element chat-log
    asking        \* spellbook.js: the calls of askWizard

vars == <<variant, httpMethod, eventBody, pc, now, slow, startTime, question, sqlQuery,
          queryRunId, selection, data, dataToSend, calls, lastReply, lastStatus,
          observed, errorMessage, response, inv, moduleScope, chatHistory, chatLog, asking>>

\* the page of spellbook.js
spellbook == <<chatHistory, chatLog, asking>>

locals == <<question, sqlQuery, queryRunId, selection, data, dataToSend, lastStatus, observed,
            startTime>>

NoResponse == [statusCode |-> 0, contentType |-> "", body |-> ""]

\* the calls of askWizard the page makes
Asks == {1, 2}

\* a call of askWizard before it is made: the question, the body of the request
\* it sent, what fetch() yielded
NotAsked == [pc |-> "idle", question |-> "", sent |-> PlainText(""), reply |-> NetFail]

\* the invocations of exports.handler that run in one process at a time
Invocations == {1, 2}

\* an invocation of exports.handler before it runs: its parameters and locals,
\* the calls it issued (each with the job handle it passed), the replies it
\* was given, and what it returned
Fresh ==
    [pc |-> "start", sqlQuery |-> Null, queryRunId |-> Null, flipsideData |-> Null,
     startTime |-> 0, now |-> 0, calls |-> <<>>, replies |-> <<>>,
     response |-> NoResponse]

\* const FLIPSIDE_EXECUTION_POLL_INTERVAL = ...; const FLIPSIDE_EXECUTION_MAX_WAIT_TIME = ...
TopLevel ==
    [FLIPSIDE_EXECUTION_POLL_INTERVAL |-> FLIPSIDE_EXECUTION_POLL_INTERVAL,
     FLIPSIDE_EXECUTION_MAX_WAIT_TIME |-> FLIPSIDE_EXECUTION_MAX_WAIT_TIME]

\* the 405 response in the shape of the 400 responses
MethodNotAllowedAsJson ==
    [statusCode |-> 405, contentType |-> "application/json",
     body |-> "{\"error\":\"Method Not Allowed\"}"]

\* return { statusCode: 405, body: "Method Not Allowed" }
MethodNotAllowed == [statusCode |-> 405, contentType |-> "", body |-> "Method Not Allowed"]

\* the response to a bad request with the status of an unprocessable entity
UnprocessableRequest(message) ==
    [statusCode |-> 422, contentType |-> "application/json",
     body |-> Stringify(Object(<<F("error", Str(message))>>))]

\* return { statusCode: 400, headers: ..., body: JSON.stringify({ error: message }) }
BadRequest(message) ==
    [statusCode |-> 400, contentType |-> "application/json",
     body |-> Stringify(Object(<<F("error", Str(message))>>))]

\* return { statusCode: statusCode, headers: ..., body: JSON.stringify({ insight: finalInsight }) }
InsightResponse(statusCode, finalInsight) ==
    [statusCode |-> statusCode, contentType |-> "application/json",
     body |-> Stringify(Object(<<F("insight", finalInsight)>>))]

\* catch (error) { finalInsight = `ChainSage Error: ${error.message}`; statusCode = 500; }
ErrorInsight(message) == Str("ChainSage Error: " \o message)

\* the stages of a function, in the order its handler awaits them
Stages(v) ==
    CASE v \in {"FlipsideV2", "ShroomDK"} -> <<"generate", "submit", "status", "results", "summarize">>
      [] v = "Covalent" -> <<"generate", "map", "execute", "summarize">>
      [] v = "Mobula" -> <<"endpoint", "call", "summarize">>

\* the handler summarizing without fetching the results
AfterSkippingResults(v, stage) ==
    LET i == CHOOSE i \in 1..Len(Stages(v)) : Stages(v)[i] = stage
    IN IF stage = "status" THEN "summarize"
       ELSE IF i < Len(Stages(v)) THEN Stages(v)[i + 1] ELSE "done"

\* the stage the handler awaits after the stage it awaited last
After(v, stage) ==
    LET i == CHOOSE i \in 1..Len(Stages(v)) : Stages(v)[i] = stage
    IN IF i < Len(Stages(v)) THEN Stages(v)[i + 1] ELSE "done"

Init ==
    /\ variant \in Variants
    /\ httpMethod \in Methods
    /\ eventBody \in Bodies
    /\ pc = "start"
    /\ now = 0
    /\ slow = 0
    /\ startTime = 0
    /\ question = Undefined
    /\ sqlQuery = Null
    /\ queryRunId = Null
    /\ selection = Null
    /\ data = Null
    /\ dataToSend = Null
    /\ calls = <<>>
    /\ lastReply = NetFail
    /\ lastStatus = Undefined
    /\ observed = 0
    /\ errorMessage = ""
    /\ response = NoResponse
    /\ inv = [i \in Invocations |-> Fresh]
    /\ moduleScope = TopLevel
    /\ chatHistory = <<>>
    /\ chatLog = <<>>
    /\ asking = [c \in Asks |-> NotAsked]

\* the handler returns
Return(r) ==
    /\ response' = r
    /\ pc' = "done"
    /\ calls' = calls

\* a catch block that leaves finalInsight as it was declared
CatchLeavingTheDefault(message) ==
    /\ errorMessage' = message
    /\ Return(InsightResponse(500, Str("An unexpected error occurred.")))

\* the handler's catch block, and its return
Catch(message) ==
    /\ errorMessage' = message
    /\ Return(InsightResponse(500, ErrorInsight(message)))

\* the handler calls a service and awaits the reply
Await(stage) ==
    /\ calls' = Append(calls, stage)
    /\ pc' = stage
    /\ UNCHANGED <<response, errorMessage>>

\* the clock that does not move by base
ElapseWithoutBase(base, d) ==
    /\ d \in {0, MaxCallTime}
    /\ d > 0 => slow < MaxSlowCalls
    /\ now' = now + d
    /\ slow' = IF d > 0 THEN slow + 1 ELSE slow

\* the clock moves on by base, and by d more when the call or timer is slow
Elapse(base, d) ==
    /\ d \in {0, MaxCallTime}
    /\ d > 0 => slow < MaxSlowCalls
    /\ now' = now + base + d
    /\ slow' = IF d > 0 THEN slow + 1 ELSE slow

\* a reply r to the call the handler awaits arrives after d
Answer(stage, r, d) ==
    /\ pc = stage
    /\ Elapse(0, d)
    /\ lastReply' = r
    /\ UNCHANGED <<variant, httpMethod, eventBody, question, inv, moduleScope, spellbook>>

\* the top of the loop without the check of the elapsed time
LoopTopWithoutCheck(t, start) == Await("status")

\* the top of the loop of waitForFlipsideExecution, at time t
LoopTop(t, start) ==
    IF TimedOut(t, start) THEN Catch(TimedOutMessage) ELSE Await("status")

\* a summarizer up to its await: the sample, the check for no data, the call
Summarizing(d) ==
    /\ dataToSend' = DataToSend(variant, d)
    /\ IF NoData(variant, DataToSend(variant, d))
       THEN /\ Return(InsightResponse(200, Str(NoDataMessage(variant))))
            /\ UNCHANGED errorMessage
       ELSE Await("summarize")

\* exports.handler, up to its first await
HandleRequest ==
    /\ pc = "start"
    /\ UNCHANGED <<variant, httpMethod, eventBody, now, slow, lastReply, inv, moduleScope,
                   spellbook>>
    /\ IF httpMethod # "POST"
       THEN /\ Return(MethodNotAllowed)
            /\ UNCHANGED <<locals, errorMessage>>
       ELSE LET body == ParseBody(EventBody(eventBody))
            IN IF body.threw
               THEN /\ Return(BadRequest("Invalid JSON request body."))
                    /\ UNCHANGED <<locals, errorMessage>>
               ELSE /\ question' = body.question
                    /\ UNCHANGED <<sqlQuery, queryRunId, selection, data, dataToSend,
                                   lastStatus, observed, startTime>>
                    /\ IF InvalidQuestion(body.question)
                       THEN /\ Return(BadRequest("Invalid or missing 'question' in request body."))
                            /\ UNCHANGED errorMessage
                       ELSE Await(Stages(variant)[1])

\* convertNLtoSQL returns or throws
GenerateReply(replies) ==
    \E n \in replies, d \in {0, MaxCallTime} :
        /\ Answer("generate", SqlReply(n), d)
        /\ UNCHANGED <<queryRunId, selection, data, dataToSend, lastStatus, observed, startTime>>
        /\ LET res == ConvertNLtoSQL(variant, SqlReply(n))
           IN IF res.threw
              THEN Catch(res.message) /\ UNCHANGED sqlQuery
              ELSE sqlQuery' = res.data /\ Await(After(variant, "generate"))

\* submitFlipsideQuery returns or throws; waitForFlipsideExecution starts
SubmitReplyArrives(replies) ==
    \E n \in replies, d \in {0, MaxCallTime} :
        /\ Answer("submit", SubmitReply(n), d)
        /\ UNCHANGED <<sqlQuery, selection, data, dataToSend, lastStatus, observed>>
        /\ LET res == SubmitFlipsideQuery(variant, SubmitReply(n))
           IN IF res.threw
              THEN Catch(res.message) /\ UNCHANGED <<queryRunId, startTime>>
              ELSE /\ queryRunId' = res.data
                   /\ startTime' = now'
                   /\ LoopTop(now', now')

\* the status calls among the calls
Polls(cs) == Cardinality({i \in 1..Len(cs) : cs[i] = "status"})

\* getFlipsideQueryStatus returns or throws, inside the loop's try block; polls:
\* the job is pending for at most that many polls
StatusReplyArrives(replies, polls) ==
    \E n \in replies, d \in {0, MaxCallTime} :
        /\ Answer("status", StatusReply(n), d)
        /\ Poll(variant, queryRunId, StatusReply(n)).next = "break" => Polls(calls) <= polls
        /\ UNCHANGED <<sqlQuery, queryRunId, selection, data, dataToSend, startTime>>
        /\ LET p == Poll(variant, queryRunId, StatusReply(n))
           IN /\ lastStatus' = p.status
              /\ observed' = IF GetFlipsideQueryStatus(variant, StatusReply(n)).threw
                             THEN observed ELSE observed + 1
              /\ CASE p.next = "return" -> Await(After(variant, "status"))
                   [] p.next = "throw" -> Catch(p.message)
                   [] p.next = "break" ->
                        /\ pc' = "timer"
                        /\ UNCHANGED <<calls, response, errorMessage>>

\* the timer of the loop fires, and the loop goes around
PollTimer ==
    \E d \in {0, MaxCallTime} :
        /\ pc = "timer"
        /\ Elapse(FLIPSIDE_EXECUTION_POLL_INTERVAL, d)
        /\ UNCHANGED <<variant, httpMethod, eventBody, lastReply, locals, inv, moduleScope,
                       spellbook>>
        /\ LoopTop(now', startTime)

\* getFlipsideQueryResults returns or throws; summarizeFlipsideData starts
ResultsReplyArrives(replies) ==
    \E n \in replies, d \in {0, MaxCallTime} :
        /\ Answer("results", ResultsReply(n), d)
        /\ UNCHANGED <<sqlQuery, queryRunId, selection, lastStatus, observed, startTime>>
        /\ LET res == GetFlipsideQueryResults(variant, ResultsReply(n))
           IN IF res.threw
              THEN Catch(res.message) /\ UNCHANGED <<data, dataToSend>>
              ELSE data' = res.data /\ Summarizing(res.data)

\* the summarizer's call of the model returns or throws
SummarizeReply(replies) ==
    \E n \in replies, d \in {0, MaxCallTime} :
        /\ Answer("summarize", SummaryReply(n), d)
        /\ UNCHANGED locals
        /\ LET res == Summarize(variant, SummaryReply(n))
           IN IF res.threw
              THEN Catch(res.message)
              ELSE Return(InsightResponse(200, res.data)) /\ UNCHANGED errorMessage

\* mapSQLtoCovalentApi returns or throws
MapReply(replies) ==
    \E n \in replies, d \in {0, MaxCallTime} :
        /\ Answer("map", MappingReply(n), d)
        /\ UNCHANGED <<sqlQuery, queryRunId, data, dataToSend, lastStatus, observed, startTime>>
        /\ LET res == MapSQLtoCovalentApi(MappingReply(n), MappingInner(n))
           IN IF res.threw
              THEN Catch(res.message) /\ UNCHANGED selection
              ELSE /\ selection' = res.data
                   /\ IF NeedsMore(res.data)
                      THEN /\ Return(InsightResponse(200, Str(NeedsMoreMessage(res.data))))
                           /\ UNCHANGED errorMessage
                      ELSE Await(After(variant, "map"))

\* executeCovalentApiCall returns or throws; summarizeCovalentData starts
ExecuteReply(replies) ==
    \E n \in replies, d \in {0, MaxCallTime} :
        /\ Answer("execute", CovalentReply(n), d)
        /\ UNCHANGED <<sqlQuery, queryRunId, selection, lastStatus, observed, startTime>>
        /\ LET res == ExecuteCovalentApiCall(selection, CovalentReply(n))
           IN IF res.threw
              THEN Catch(res.message) /\ UNCHANGED <<data, dataToSend>>
              ELSE data' = res.data /\ Summarizing(res.data)

\* getModulaEndpointAndParams returns or throws
EndpointReplyArrives(replies) ==
    \E n \in replies, d \in {0, MaxCallTime} :
        /\ Answer("endpoint", EndpointReply(n), d)
        /\ UNCHANGED <<sqlQuery, queryRunId, data, dataToSend, lastStatus, observed, startTime>>
        /\ LET res == GetModulaEndpointAndParams(EndpointReply(n), EndpointInner(n))
               reads == EndpointReads(res.data)
           IN IF res.threw
              THEN Catch(res.message) /\ UNCHANGED selection
              ELSE /\ selection' = res.data
                   /\ IF reads.threw THEN Catch(reads.message)
                      ELSE IF Falsy(Get(res.data, "can_query"))
                      THEN /\ Return(InsightResponse(200, Get(res.data, "message")))
                           /\ UNCHANGED errorMessage
                      ELSE Await(After(variant, "endpoint"))

\* callModulaApi returns or throws; summarizeModulaData starts
CallReply(replies) ==
    \E n \in replies, d \in {0, MaxCallTime} :
        /\ Answer("call", ModulaReply(n), d)
        /\ UNCHANGED <<sqlQuery, queryRunId, selection, lastStatus, observed, startTime>>
        /\ LET res == CallModulaApi(ModulaReply(n))
           IN IF res.threw
              THEN Catch(res.message) /\ UNCHANGED <<data, dataToSend>>
              ELSE data' = res.data /\ Summarizing(res.data)

Next ==
    \/ HandleRequest
    \/ GenerateReply(SqlReplies)
    \/ SubmitReplyArrives(SubmitReplies)
    \/ StatusReplyArrives(StatusReplies, MaxPolls)
    \/ PollTimer
    \/ ResultsReplyArrives(ResultsReplies)
    \/ SummarizeReply(SummaryReplies)
    \/ MapReply(MappingReplies)
    \/ ExecuteReply(CovalentReplies)
    \/ EndpointReplyArrives(EndpointReplies)
    \/ CallReply(ModulaReplies)

Spec == Init /\ [][Next]_vars

(***************************************************************************)
(* The asynchronous-job functions with a job that may stay pending for as  *)
(* long as the loop polls, and a few replies of the other services.        *)
(***************************************************************************)
\* the loop cannot poll more often than this
Ceiling == FLIPSIDE_EXECUTION_MAX_WAIT_TIME \div FLIPSIDE_EXECUTION_POLL_INTERVAL + 2

InitPolling ==
    /\ Init
    /\ variant \in {"FlipsideV2", "ShroomDK"}
    /\ httpMethod = "POST"
    /\ eventBody = 18

NextPolling ==
    \/ HandleRequest
    \/ GenerateReply({1, 4})
    \/ SubmitReplyArrives({1, 3, 5})
    \/ StatusReplyArrives(StatusReplies, Ceiling)
    \/ PollTimer
    \/ ResultsReplyArrives({1, 3})
    \/ SummarizeReply({1, 3})

SpecPolling == InitPolling /\ [][NextPolling]_vars

\* the step of StatusReplyArrives, seen on pc alone
StatusAnswered == pc = "status" /\ pc' \in {"timer", "results", "summarize", "done"}

\* the step of PollTimer, seen on pc alone
TimerFired == pc = "timer" /\ pc' \in {"status", "done"}

\* every status call is answered, and every timer of the loop fires
SpecPollingFair ==
    /\ SpecPolling
    /\ WF_pc(StatusAnswered)
    /\ WF_pc(TimerFired)

(***************************************************************************)
(* Two invocations of the Flipside V2 handler in one process.  Each holds  *)
(* its own parameters and locals (let sqlQuery, queryRunId, flipsideData   *)
(* in the handler, const startTime in waitForFlipsideExecution); the       *)
(* module holds const bindings only.  A step is the code of one invocation *)
(* between two awaits, as above, for a POST with a valid question.         *)
(***************************************************************************)
\* the submit response that carries the job handle h
HandleDocument(h) ==
    Object(<<F("result", Object(<<F("queryRun", Object(<<F("queryRunId", Str(h))>>))>>))>>)

\* the replies an invocation can be given to the call it awaits
Choices(stage) == IF stage \in {"submit", "status"} THEN 1..3 ELSE 1..2
ConcurrentReply(stage, k) ==
    CASE stage = "generate" -> SqlReply(IF k = 1 THEN 1 ELSE 4)
      [] stage = "submit" -> IF k = 3 THEN Failure(2) ELSE Ok200(HandleDocument("qr-" \o ToString(k)))
      [] stage = "status" -> StatusReply(IF k = 1 THEN 1 ELSE IF k = 2 THEN 4 ELSE 5)
      [] stage = "results" -> ResultsReply(IF k = 1 THEN 1 ELSE 3)
      [] stage = "summarize" -> IF k = 1 THEN SummaryReply(1) ELSE Failure(1)

\* the invocation calls a service, passing the job handle (null when the call
\* takes none), and awaits the reply
Issue(st, stage, handle) ==
    [st EXCEPT !.pc = stage, !.calls = Append(@, [stage |-> stage, handle |-> handle])]

\* the return statement of the handler
Finish(st, statusCode, finalInsight) ==
    [st EXCEPT !.pc = "done", !.response = InsightResponse(statusCode, finalInsight)]

\* the catch block of the handler, and its return
Fail(st, message) == Finish(st, 500, ErrorInsight(message))

\* the top of the loop of waitForFlipsideExecution
Top(st) ==
    IF TimedOut(st.now, st.startTime) THEN Fail(st, TimedOutMessage)
    ELSE Issue(st, "status", st.queryRunId)

\* exports.handler up to its first await
Invoke(st) == Issue(st, "generate", Null)

\* the invocation from the reply k to the call it awaits up to its next await
OnReply(st, k) ==
    LET r == ConcurrentReply(st.pc, k)
        s1 == [st EXCEPT !.replies = Append(@, k)]
    IN CASE st.pc = "generate" ->
              LET res == ConvertNLtoSQL("FlipsideV2", r)
              IN IF res.threw THEN Fail(s1, res.message)
                 ELSE Issue([s1 EXCEPT !.sqlQuery = res.data], "submit", Null)
         [] st.pc = "submit" ->
              LET res == SubmitV2(r)
              IN IF res.threw THEN Fail(s1, res.message)
                 ELSE Top([s1 EXCEPT !.queryRunId = res.data, !.startTime = s1.now])
         [] st.pc = "status" ->
              LET p == Poll("FlipsideV2", st.queryRunId, r)
              IN IF p.next = "return" THEN Issue(s1, "results", s1.queryRunId)
                 ELSE IF p.next = "throw" THEN Fail(s1, p.message)
                 ELSE [s1 EXCEPT !.pc = "timer"]
         [] st.pc = "results" ->
              LET res == ResultsV2(r)
              IN IF res.threw THEN Fail(s1, res.message)
                 ELSE IF NoData("FlipsideV2", SampleV2(res.data))
                 THEN Finish([s1 EXCEPT !.flipsideData = res.data], 200,
                             Str(NoDataMessage("FlipsideV2")))
                 ELSE Issue([s1 EXCEPT !.flipsideData = res.data], "summarize", Null)
         [] st.pc = "summarize" ->
              LET res == Summarize("FlipsideV2", r)
              IN IF res.threw THEN Fail(s1, res.message) ELSE Finish(s1, 200, res.data)

\* the timer of the loop fires, and the loop goes around
OnTimer(st) == Top([st EXCEPT !.now = @ + FLIPSIDE_EXECUTION_POLL_INTERVAL])

\* a step of an invocation that wrote its job handle to the top level of the module
AfterStepSharingTheHandle(scope, st) ==
    IF IsString(st.queryRunId)
    THEN [scope EXCEPT !.FLIPSIDE_EXECUTION_MAX_WAIT_TIME = Len(st.queryRunId.v)]
    ELSE scope

\* the bindings of the module after a step of an invocation: the handler and
\* the functions it calls assign to their own locals only
AfterStep(scope, st) == scope

\* the variables of the single request
single == <<variant, httpMethod, eventBody, pc, now, slow, startTime, question, sqlQuery,
            queryRunId, selection, data, dataToSend, calls, lastReply, lastStatus,
            observed, errorMessage, response>>

\* invocation i makes the step that takes it to st
Becomes(i, st) ==
    /\ inv' = [inv EXCEPT ![i] = st]
    /\ moduleScope' = AfterStep(moduleScope, st)
    /\ UNCHANGED <<single, spellbook>>

InvokeHandler == \E i \in Invocations : inv[i].pc = "start" /\ Becomes(i, Invoke(inv[i]))

\* the status calls an invocation issued
StatusCalls(st) == Cardinality({j \in 1..Len(st.calls) : st.calls[j].stage = "status"})

ReplyArrives ==
    \E i \in Invocations :
        /\ inv[i].pc \in {"generate", "submit", "status", "results", "summarize"}
        /\ \E k \in Choices(inv[i].pc) :
               /\ OnReply(inv[i], k).pc = "timer" => StatusCalls(inv[i]) <= MaxPolls
               /\ Becomes(i, OnReply(inv[i], k))

TimerFires == \E i \in Invocations : inv[i].pc = "timer" /\ Becomes(i, OnTimer(inv[i]))

InitConcurrent == Init /\ variant = "FlipsideV2" /\ httpMethod = "POST" /\ eventBody = 18

NextConcurrent == InvokeHandler \/ ReplyArrives \/ TimerFires

SpecConcurrent == InitConcurrent /\ [][NextConcurrent]_vars

(***************************************************************************)
(* The frontends: askWizard, from the response of the function to the text *)
(* it appends to the chat.                                                 *)
(***************************************************************************)
Frontends == {"chat", "throwing"}

\* the documents the function writes as a body
Documents ==
    {Object(<<F("error", Str(m))>>) :
        m \in {"Invalid JSON request body.", "Invalid or missing 'question' in request body."}}
    \cup {Object(<<F("insight", ErrorInsight(errorMessage))>>)}
    \cup {Object(<<F("insight", Str(NoDataMessage(variant)))>>)}
    \cup {Object(<<F("insight", Str(SummaryText(n)))>>) : n \in 1..4}
    \cup {Object(<<F("insight", Str(Trim(SummaryText(n))))>>) : n \in 1..4}
    \cup {Object(<<F("insight", Str(NeedsMoreMessage(MappingValue(n))))>>) : n \in 1..9}
    \cup {Object(<<F("insight", Get(EndpointValue(n), "message"))>>) : n \in 1..11}

\* await response.json(): the document of which the body is the text, if it is one
ResponseJson(rsp) ==
    IF \E doc \in Documents : Stringify(doc) = rsp.body
    THEN Returned(CHOOSE doc \in Documents : Stringify(doc) = rsp.body)
    ELSE Thrown(SyntaxErrorMessage(rsp.body), "", 0)

\* response.ok
Ok(rsp) == rsp.statusCode >= 200 /\ rsp.statusCode <= 299

\* errorData.error || `Proxy function returned error status: ${response.status}`
ProxyError(errorData, rsp) ==
    ToStr(Or(Get(errorData, "error"),
             Str("Proxy function returned error status: " \o ToString(rsp.statusCode))))

OracleError(message) == "An error occurred while consulting the Oracle: " \o message
OracleUnreachable(message) ==
    "A network error occurred while trying to reach the Oracle: " \o message

\* the catch block of askWizard
Caught(frontend, message) ==
    IF frontend = "throwing" THEN OracleError(message) ELSE OracleUnreachable(message)

\* the text askWizard appends to the chat for the response of the function
Displayed(frontend, rsp) ==
    LET parsed == ResponseJson(rsp)
    IN IF parsed.threw THEN Caught(frontend, parsed.message)
       ELSE IF ~Ok(rsp) THEN OracleError(ProxyError(parsed.data, rsp))
       ELSE IF frontend = "chat" /\ Falsy(Get(parsed.data, "insight"))
       THEN "Received an unexpected response format from the Oracle."
       ELSE ToStr(Get(parsed.data, "insight"))

(***************************************************************************)
(* Properties.                                                             *)
(***************************************************************************)
Last(seq) == seq[Len(seq)]
Repeat(x, k) == [i \in 1..k |-> x]
IsPrefix(p, q) == Len(p) <= Len(q) /\ SubSeq(q, 1, Len(p)) = p
Issued(stage) == \E i \in 1..Len(calls) : calls[i] = stage
Done == pc = "done"
Flipside == {"FlipsideV2", "ShroomDK"}

\* the calls of a request that goes through all its stages, with k polls
ExpectedCalls(v, k) ==
    CASE v \in Flipside ->
            <<"generate", "submit">> \o Repeat("status", k) \o <<"results", "summarize">>
      [] v = "Covalent" -> <<"generate", "map", "execute", "summarize">>
      [] v = "Mobula" -> <<"endpoint", "call", "summarize">>

\* the text a response of the model carries at candidates[0].content.parts[0].text
CarriedText(r) ==
    IF r.net /\ ResponseOk(r) /\ r.w.json THEN OptionalText(r.w.data) ELSE Undefined

\* the body {"insight": text}
InsightBody(text) == "{\"insight\":" \o Quote(text) \o "}"

\* the calls are a prefix of the expected calls; the call awaited is the last one
\* issued; a call was issued only when the stages before it had yielded their
\* values; a failure ends the request
C1_State ==
    /\ IsPrefix(calls, ExpectedCalls(variant, IF Polls(calls) = 0 THEN 1 ELSE Polls(calls)))
    /\ pc \notin {"start", "timer", "done"} => Len(calls) > 0 /\ Last(calls) = pc
    /\ pc \in {"start", "timer", "done"} \/ errorMessage = ""
    /\ Issued("submit") \/ Issued("map") =>
            IsString(sqlQuery) /\ Len(sqlQuery.v) >= 5 /\ ~StartsWith(sqlQuery.v, "ERROR:")
    /\ Issued("status") => ~Falsy(queryRunId)
    /\ Polls(calls) >= 2 /\ pc = "status" =>
            /\ observed = Polls(calls) - 1
            /\ IsString(lastStatus)
            /\ lastStatus.v \in {"PENDING", "RUNNING", "CANCELLING", "pending", "running"}
    /\ Issued("results") =>
            /\ IsString(lastStatus)
            /\ lastStatus.v = (IF variant = "FlipsideV2" THEN "COMPLETED" ELSE "finished")
    /\ Issued("summarize") /\ variant \in Flipside => ~Nullish(data)
    /\ Issued("execute") \/ Issued("call") => ~Nullish(selection)
    /\ errorMessage # "" => Done /\ response.statusCode = 500

\* one call more at most in a step, and none once a stage has failed
C1_Step ==
    /\ calls' # calls => Len(calls') = Len(calls) + 1 /\ IsPrefix(calls, calls')
    /\ calls' # calls => errorMessage = "" /\ errorMessage' = ""
    /\ errorMessage # "" => calls' = calls

\* C1: the external calls of a request are issued in the order query generation,
\* submit, status polls, results fetch, summarization; each is issued only after
\* the one before it returned successfully, and no call is issued after the first
\* stage that fails.
C1_SequentialCalls == []C1_State /\ [][C1_Step]_vars

\* a request that went through all its stages, with three polls
C1_Witness ==
    /\ Done
    /\ variant = "FlipsideV2"
    /\ calls = ExpectedCalls("FlipsideV2", 3)
    /\ response.statusCode = 200

\* C2: when a stage throws, the handler returns 500 with a body whose only field
\* is insight, the tag "ChainSage Error: " followed by the error's message, and the
\* response includes no intermediate value (the SQL, the job handle, the rows).
C2_UniformError ==
    errorMessage # "" =>
        /\ Done
        /\ response.statusCode = 500
        /\ response.body = InsightBody("ChainSage Error: " \o errorMessage)
        /\ IsString(sqlQuery) => ~Includes(response.body, sqlQuery.v)
        /\ ~Nullish(queryRunId) => ~Includes(response.body, ToStr(queryRunId))
        /\ ~Nullish(data) => ~Includes(response.body, Stringify(data))

\* the rows a results fetch yielded
RowCount(v, d) ==
    IF v = "FlipsideV2" THEN (IF IsArray(Get(d, "rows")) THEN Len(Get(d, "rows").items) ELSE 0)
    ELSE (IF IsArray(d) THEN Len(d.items) ELSE 0)

\* C3: in every provider variant, when the query was generated, submitted and
\* completed, the results hold at least one row, and the summarization response
\* carries text, the handler returns 200 with the body {insight: the text, trimmed}.
C3_Success ==
    /\ Done
    /\ variant \in Flipside
    /\ Len(calls) > 0 /\ Last(calls) = "summarize"
    /\ RowCount(variant, data) >= 1
    /\ IsString(CarriedText(lastReply)) /\ CarriedText(lastReply).v # ""
    => /\ response.statusCode = 200
       /\ response.body = InsightBody(Trim(CarriedText(lastReply).v))

\* the request body is not parseable JSON, or holds no usable question
Unparseable(b) == b.kind # "text" \/ ~b.w.json
NoUsableQuestion(b) ==
    \/ Nullish(b.w.data)
    \/ ~IsString(Get(b.w.data, "question"))
    \/ Trim(Get(b.w.data, "question").v) = ""
BadBody(n) == Unparseable(EventBody(n)) \/ NoUsableQuestion(EventBody(n))

\* the body {"error": some text}
IsErrorBody(body) ==
    /\ StartsWith(body, "{\"error\":\"")
    /\ EndsWith(body, "\"}")
    /\ Len(body) > Len("{\"error\":\"\"}")

\* C4: a POST whose body is not parseable JSON (a null body included), or whose
\* parsed body has no question that is a non-empty, non-whitespace string, gets
\* 400 with a body {error: string}, and no external call is issued for it.
C4_BadRequest ==
    httpMethod = "POST" /\ BadBody(eventBody) =>
        /\ calls = <<>>
        /\ pc \in {"start", "done"}
        /\ Done => /\ response.statusCode = 400
                   /\ response.contentType = "application/json"
                   /\ IsErrorBody(response.body)

\* a POST with a question of white space only was answered
C4_Witness == Done /\ httpMethod = "POST" /\ eventBody = 13 /\ response.statusCode = 400

\* C5: a request whose method is not POST gets 405 with the plain-text body
\* "Method Not Allowed" whatever its body holds, malformed JSON included, and no
\* external call is issued for it.
C5_MethodNotAllowed ==
    httpMethod # "POST" =>
        /\ calls = <<>>
        /\ pc \in {"start", "done"}
        /\ Done => /\ response.statusCode = 405
                   /\ response.contentType = ""
                   /\ response.body = "Method Not Allowed"

\* a GET with malformed JSON in its body was answered
C5_Witness == Done /\ httpMethod = "GET" /\ eventBody = 4 /\ response.statusCode = 405

\* C6: every response with statusCode 200 has a JSON body with an insight field
\* whose value is a non-empty string, on every path that returns 200.
C6_InsightPresent ==
    Done /\ response.statusCode = 200 =>
        /\ StartsWith(response.body, "{\"insight\":\"")
        /\ EndsWith(response.body, "\"}")
        /\ Len(response.body) > Len("{\"insight\":\"\"}")

\* the pending class of a variant
IsPending(v, status) ==
    /\ IsString(status)
    /\ status.v \in (IF v = "FlipsideV2" THEN {"PENDING", "RUNNING", "CANCELLING"}
                     ELSE {"pending", "running"})

\* C7: when every poll of waitForFlipsideExecution returns a pending-class
\* status, the function fails with the timed-out error, no earlier than
\* FLIPSIDE_EXECUTION_MAX_WAIT_TIME after the loop was entered, and no status call
\* is issued after that: a status call is issued only within the ceiling, the
\* polls of one request are bounded, and a request whose last status is pending
\* has ended, if it has ended, with the timed-out error.
C7_Timeout ==
    /\ pc = "status" => now - startTime <= 120000
    /\ pc \in {"status", "timer"} => Polls(calls) <= 120000 \div 3000 + 1
    /\ pc = "timer" => IsPending(variant, lastStatus) /\ observed = Polls(calls)
    /\ Done /\ Issued("status") /\ IsPending(variant, lastStatus) =>
            /\ errorMessage = "Flipside query execution timed out after 120 seconds."
            /\ response.statusCode = 500
            /\ now - startTime > 120000
            /\ Last(calls) = "status"
            /\ observed = Polls(calls)
    /\ errorMessage = "Flipside query execution timed out after 120 seconds." =>
            Done /\ IsPending(variant, lastStatus)

\* the job was pending at each of the 41 polls the ceiling leaves room for
C7_Witness ==
    /\ Done
    /\ errorMessage = TimedOutMessage
    /\ Polls(calls) = 41
    /\ now - startTime = 123000

\* the status a reply carries, where the function of the variant reads it
ReportedStatus(v, r) ==
    IF ~(r.net /\ ResponseOk(r) /\ r.w.json) THEN Undefined
    ELSE IF v = "FlipsideV2" THEN OptGet(OptGet(r.w.data, "result"), "status")
    ELSE OptGet(r.w.data, "status")

\* the vocabulary of a variant, compared case-sensitively
Known(v, status) ==
    /\ IsString(status)
    /\ status.v \in (IF v = "FlipsideV2"
                     THEN {"PENDING", "RUNNING", "CANCELLING", "COMPLETED", "FAILED", "CANCELLED"}
                     ELSE {"pending", "running", "finished", "failed"})

\* C8: a poll that returns a status outside the vocabulary of the provider ends
\* the polling at once with a failure: no wait and no status call follows, and the
\* handler returns 500.
C8_UnknownStatus ==
    [][pc = "status" /\ pc' # "status" /\ ~Known(variant, ReportedStatus(variant, lastReply'))
         => /\ pc' = "done"
            /\ calls' = calls
            /\ errorMessage' # ""
            /\ response'.statusCode = 500]_vars

\* the provider reported QUEUED, and the request failed
C8_Witness ==
    /\ Done
    /\ variant = "FlipsideV2"
    /\ IsString(lastStatus) /\ lastStatus.v = "QUEUED"
    /\ response.statusCode = 500

\* C9: when the cleaned text of the generator starts with "ERROR:" or has fewer
\* than 5 characters, the request fails with the generation error (500), and no
\* data-provider call is issued for it.
C9_GenerationFailure ==
    [][/\ pc = "generate"
       /\ pc' # "generate"
       /\ IsString(CarriedText(lastReply'))
       /\ LET cleaned == CleanSql(CarriedText(lastReply').v)
          IN StartsWith(cleaned, "ERROR:") \/ Len(cleaned) < 5
       => /\ pc' = "done"
          /\ calls' = <<"generate">>
          /\ response'.statusCode = 500
          /\ errorMessage' \in {CouldNotFormulate, InvalidNLtoSQL}]_vars

\* the generator wrote four characters, and the request failed
C9_Witness ==
    /\ Done
    /\ calls = <<"generate">>
    /\ IsString(CarriedText(lastReply)) /\ CarriedText(lastReply).v = " abcd "
    /\ errorMessage = CouldNotFormulate

\* C10: pending-class statuses followed by FAILED, all before the ceiling, end
\* in 500 with an insight that contains "failed", after exactly one status call
\* per status observed, with no results fetch and no summarization call.
C10_Failed ==
    variant = "FlipsideV2" /\ IsString(lastStatus) /\ lastStatus.v = "FAILED" =>
        /\ Done
        /\ response.statusCode = 500
        /\ StartsWith(response.body, "{\"insight\":\"")
        /\ Includes(response.body, "failed")
        /\ Polls(calls) = observed
        /\ Last(calls) = "status"
        /\ ~Issued("results") /\ ~Issued("summarize")

\* three polls found the job pending, the fourth found it failed
C10_Witness ==
    /\ Done
    /\ variant = "FlipsideV2"
    /\ IsString(lastStatus) /\ lastStatus.v = "FAILED"
    /\ observed = 4

\* an array without items
IsEmptyArray(x) == IsArray(x) /\ Len(x.items) = 0

\* the data a summarizer is handed holds the rows of the provider, and none:
\* rows (Flipside V2), the array itself (ShroomDK), items (Covalent), data (Mobula)
ZeroRows(v, d) ==
    CASE v = "FlipsideV2" -> IsEmptyArray(OptGet(d, "rows"))
      [] v = "ShroomDK" -> IsEmptyArray(d)
      [] v = "Covalent" -> IsEmptyArray(OptGet(d, "items"))
      [] v = "Mobula" -> IsEmptyArray(OptGet(d, "data"))

\* the response 200 with the fixed message that the query returned no data
NoDataResponse ==
    /\ response.statusCode = 200
    /\ StartsWith(response.body, "{\"insight\":\"The query ran successfully ")
    /\ Includes(response.body, "returned no data")

\* C11: in every provider variant, when the data handed to the summarizer has
\* zero rows, the summarizer issues no LLM call, and the handler responds 200
\* with the fixed message that the query ran successfully but returned no data.
C11_EmptyData ==
    ZeroRows(variant, data) => Done /\ ~Issued("summarize") /\ NoDataResponse

\* C12: the sampling step of the summarizer never yields more rows than its
\* input has, never changes columnNames, and passes on unchanged every input
\* whose JSON text has at most MAX_DATA_LENGTH (5000) characters.
C12_Sampling ==
    variant \in Flipside =>
        /\ RowCount(variant, dataToSend) <= RowCount(variant, data)
        /\ variant = "FlipsideV2" /\ ~Nullish(data) =>
               Stringify(Get(dataToSend, "columnNames")) = Stringify(Get(data, "columnNames"))
        /\ Len(Stringify(data)) <= 5000 => Stringify(dataToSend) = Stringify(data)

\* a result set too long for the prompt was cut down to its first 50 rows
C12_Witness ==
    /\ variant = "FlipsideV2"
    /\ Len(Stringify(data)) > 5000
    /\ RowCount(variant, data) > 50
    /\ RowCount(variant, dataToSend) = 50

\* C13: the normalization of getFlipsideQueryResults is idempotent: applied to
\* the canonical value { columnNames, rows } that it yielded for a payload, it
\* yields that same value again: normalize(normalize(x)) = normalize(x).
C13_Idempotent ==
    variant = "FlipsideV2" /\ ~Nullish(data) =>
        LET again == NormalizeV2(data)
        IN ~again.threw /\ Stringify(again.data) = Stringify(data)

\* a results payload that holds a value at result, where getFlipsideQueryResults
\* reads the rows and the column names
ResultsPayload(result) == Object(<<F("result", result)>>)

\* the normalization yields the same value again when that value is handed to
\* it at result, inside the envelope of the provider
IdempotentUnderResult ==
    variant = "FlipsideV2" /\ ~Nullish(data) =>
        LET again == NormalizeV2(ResultsPayload(data))
        IN ~again.threw /\ Stringify(again.data) = Stringify(data)

\* the latest reply is the reply to the results fetch
ResultsAnswered ==
    /\ Len(calls) > 0
    /\ \/ pc = "summarize"
       \/ Done /\ Last(calls) = "results"

\* the latest reply is a 200 response whose JSON text carries no error
Carried(r) == r.net /\ ResponseOk(r) /\ r.w.json /\ Falsy(OptGet(r.w.data, "error"))

\* the keys of a record, in order, as JSON text
KeysText(row) == Stringify(Arr([i \in 1..Len(row.items) |-> Str(row.items[i].k)]))

FailedCall(r) == ~r.net \/ ~ResponseOk(r) \/ ~r.w.json

\* a results response without the rows container, where the function of the
\* variant reads it
WithoutRows(v, r) ==
    /\ Carried(r)
    /\ Nullish(IF v = "FlipsideV2" THEN OptGet(OptGet(r.w.data, "result"), "rows")
               ELSE OptGet(r.w.data, "results"))

\* C15: no stage silently recovers from a dependency failure: when the external
\* call a stage awaits fails, the request ends at once in the failure outcome
\* (500), never in a success-shaped insight; and a results response without
\* rows never yields a success.
C15_NoSilentRecovery ==
    [][/\ pc \notin {"start", "timer", "done"}
       /\ pc' # pc
       /\ \/ FailedCall(lastReply')
          \/ pc = "results" /\ WithoutRows(variant, lastReply')
       => /\ pc' = "done"
          /\ response'.statusCode = 500
          /\ errorMessage' # ""]_vars

\* the response body holds the text, as JSON.stringify writes it inside a string
BodyHolds(text) == text # "" /\ Includes(response.body, Escape(text))

\* the text of a field of the parsed body of a reply, "" when there is none
FieldText(r, key) ==
    IF r.w.json /\ IsString(OptGet(r.w.data, key)) THEN OptGet(r.w.data, key).v ELSE ""

\* C16: no response body of the handler contains text taken from a raw provider
\* response body: the insight of the 500 response that follows a failing
\* external call holds neither the text of the provider's response nor the
\* message or error of its parsed body.
C16_NoProviderText ==
    Done /\ Len(calls) > 0 /\ response.statusCode = 500 /\ lastReply.net =>
        /\ ~lastReply.w.json => ~BodyHolds(lastReply.w.text)
        /\ ~BodyHolds(FieldText(lastReply, "message"))
        /\ ~BodyHolds(FieldText(lastReply, "error"))

\* the timer, if the invocation awaits it
Settle(st) == IF st.pc = "timer" THEN OnTimer(st) ELSE st

RECURSIVE Run(_, _)
\* the invocation running alone from st, given the replies h
Run(st, h) ==
    IF Len(h) = 0 THEN st
    ELSE Run(OnReply(Settle(st), Head(h)), Tail(h))

\* the invocation did what it does alone, given the replies it was given
AsAlone(st) ==
    st.pc = "start" \/
        LET alone == Run(Invoke(Fresh), st.replies)
        IN \/ st.calls = alone.calls /\ st.response = alone.response /\ st.pc = alone.pc
           \/ /\ alone.pc = "timer"
              /\ st.calls = Settle(alone).calls
              /\ st.response = Settle(alone).response

\* each status call and results fetch passed the handle of the invocation's own
\* submit response ("qr-k" for the reply k, the second the invocation was given)
OwnHandle(st) ==
    \A j \in 1..Len(st.calls) :
        st.calls[j].stage \in {"status", "results"} =>
            /\ Len(st.replies) >= 2
            /\ IsString(st.calls[j].handle)
            /\ st.calls[j].handle.v = "qr-" \o ToString(st.replies[2])

C18_DisplayedMessage ==
    Done /\ response.statusCode = 500 =>
        \A frontend \in Frontends :
            Includes(Displayed(frontend, response), ErrorInsight(errorMessage).v)

\* the text displayed for a 400 response contains the message of the function,
\* which that response carries in the field error
DisplayedBadRequest ==
    Done /\ response.statusCode = 400 =>
        \A frontend \in Frontends :
            \E doc \in Documents :
                /\ Stringify(doc) = response.body
                /\ Includes(Displayed(frontend, response), Get(doc, "error").v)

\* the classes of the statuses of a provider
Succeeded(v) == IF v = "FlipsideV2" THEN {"COMPLETED"} ELSE {"finished"}
Failed(v) == IF v = "FlipsideV2" THEN {"FAILED", "CANCELLED"} ELSE {"failed"}
Continuing(v) ==
    IF v = "FlipsideV2" THEN {"PENDING", "RUNNING", "CANCELLING"} ELSE {"running", "pending"}

\* the step from the reply to a status call, which carries a status of the
\* vocabulary, ends the polling with success (the results are fetched), ends it
\* with a failure (500, no further call), or starts the wait, as the class of the
\* status says
Classified ==
    pc = "status" /\ pc' # "status" /\ Known(variant, ReportedStatus(variant, lastReply')) =>
        LET s == ReportedStatus(variant, lastReply').v
        IN /\ Cardinality({c \in {Succeeded(variant), Failed(variant), Continuing(variant)} :
                              s \in c}) = 1
           /\ s \in Succeeded(variant) =>
                  pc' = "results" /\ calls' = Append(calls, "results") /\ errorMessage' = ""
           /\ s \in Failed(variant) =>
                  /\ pc' = "done"
                  /\ calls' = calls
                  /\ response'.statusCode = 500
                  /\ Includes(errorMessage', IF s = "CANCELLED" THEN "cancelled" ELSE "failed")
           /\ s \in Continuing(variant) =>
                  pc' = "timer" /\ calls' = calls /\ errorMessage' = ""

\* the wait is one timer of the poll interval, and another status call follows it
AnotherStatusCall ==
    /\ now' >= now + 3000
    /\ pc' = "status"
    /\ calls' = Append(calls, "status")

\* the statement of the classes in which every wait is followed by another
\* status call
C19_AlwaysAnotherCall ==
    [][Classified /\ (pc = "timer" => AnotherStatusCall)]_vars

\* C19: each status of the vocabulary falls in exactly one class.  In the
\* JSON-RPC variant COMPLETED ends the polling with success, FAILED and
\* CANCELLED end it with a failure, and PENDING, RUNNING and CANCELLING each
\* lead to exactly one wait of the poll interval; in the REST variant finished
\* is success, failed is failure, running and pending continue.  The wait is
\* followed by another status call unless more than the ceiling has elapsed when
\* it ends, and by the timed-out failure and no call then.
C19_Classes ==
    [][/\ Classified
       /\ pc = "timer" =>
            IF now' - startTime > 120000
            THEN /\ now' >= now + 3000
                 /\ pc' = "done"
                 /\ calls' = calls
                 /\ errorMessage' = "Flipside query execution timed out after 120 seconds."
            ELSE AnotherStatusCall]_vars

\* the job was found in a continuing status twice, then completed, and the
\* results were fetched after two waits of the poll interval
C19_Witness ==
    /\ variant = "FlipsideV2"
    /\ pc = "results"
    /\ Polls(calls) = 3
    /\ IsString(lastStatus) /\ lastStatus.v = "COMPLETED"
    /\ now - startTime = 6000

\* C20: once more than FLIPSIDE_EXECUTION_MAX_WAIT_TIME has elapsed since the
\* start of polling, the executor fails with the timeout error whatever the
\* state of the job: waitForFlipsideExecution never returns success later than
\* the ceiling, not even when a status call issued before the ceiling returns
\* the success status after it.
C20_NoLateSuccess ==
    [][pc = "status" /\ now' - startTime > 120000 =>
           /\ pc' # "results"
           /\ pc' = "done" => errorMessage' = "Flipside query execution timed out after 120 seconds."]_vars

\* no status call is issued once more than the ceiling has elapsed
NoLateStatusCall ==
    [][pc' = "status" /\ pc # "status" => now' - startTime <= 120000]_vars

\* the polling of the request ended on the status the last poll returned, a
\* string that is a terminal failure or outside the vocabulary of the provider
EndedOnStatus ==
    /\ Done
    /\ variant \in Flipside
    /\ Len(calls) > 0 /\ Last(calls) = "status"
    /\ IsString(lastStatus)
    /\ ~IsPending(variant, lastStatus)

\* C21: whenever polling ends on a terminal-failure status or on a status
\* outside the vocabulary, the error that reaches the handler carries the status
\* string exactly as the provider returned it, so that the insight of the 500
\* response contains that string.
C21_RawStatus ==
    EndedOnStatus =>
        /\ response.statusCode = 500
        /\ Includes(errorMessage, lastStatus.v)
        /\ Includes(response.body, Escape(lastStatus.v))

\* the insight carries the status string when the status is outside the
\* vocabulary, and when it is the failed of the REST variant, which the fixed
\* message happens to spell
RawStatusWhenUnknown ==
    EndedOnStatus /\ (~Known(variant, lastStatus) \/ lastStatus.v = "failed") =>
        /\ response.statusCode = 500
        /\ Includes(response.body, Escape(lastStatus.v))

\* the job handle a submit reply carries, where the function of the variant
\* reads it
ReportedHandle(v, r) ==
    IF ~(r.net /\ ResponseOk(r) /\ r.w.json) THEN Undefined
    ELSE IF v = "FlipsideV2"
    THEN OptGet(OptGet(OptGet(r.w.data, "result"), "queryRun"), "queryRunId")
    ELSE OptGet(r.w.data, "query_id")

NonEmptyString(x) == IsString(x) /\ Len(x.v) > 0

\* the reply to the submit call carries no handle that is a non-empty string,
\* and the request ends in 500 without a status call
SubmitRejects(v) ==
    /\ variant = v
    /\ pc = "submit"
    /\ pc' # "submit"
    /\ ~NonEmptyString(ReportedHandle(variant, lastReply'))
    => /\ pc' = "done"
       /\ calls' = calls
       /\ response'.statusCode = 500
       /\ queryRunId' = queryRunId

\* C22: the submit step fails, and no status poll is issued, whenever the job
\* handle in the submit response is missing, empty or not a string; the poller
\* is handed a handle only if it is a non-empty string.
C22_Handle ==
    [][/\ \A v \in Flipside : SubmitRejects(v)
       /\ pc' = "status" => NonEmptyString(queryRunId')]_vars

\* the JSON-RPC variant alone rejects every handle that is not a non-empty string
HandleV2 ==
    [][/\ SubmitRejects("FlipsideV2")
       /\ variant = "FlipsideV2" /\ pc' = "status" => NonEmptyString(queryRunId')]_vars

\* C23: after a successful terminal status, the results fetch fails, and the
\* handler returns 500, whenever the results response lacks the rows container
\* (result.rows in the JSON-RPC variant, results in the REST variant).
C23_ResultFetchFailure ==
    [][/\ pc = "results"
       /\ pc' # "results"
       /\ WithoutRows(variant, lastReply')
       => /\ pc' = "done"
          /\ response'.statusCode = 500
          /\ ~Issued("summarize")']_vars

\* the stage of a variant that fetches the data of the provider
FetchStage(v) ==
    CASE v \in Flipside -> "results" [] v = "Covalent" -> "execute" [] v = "Mobula" -> "call"

\* the fetch stage returned, and its value was handed to the summarizer
Handed ==
    /\ Len(calls) > 0
    /\ \/ Last(calls) = "summarize"
       \/ Last(calls) = FetchStage(variant) /\ Done /\ response.statusCode = 200

\* {columnNames: sequence, rows: sequence}
Canonical(x) ==
    /\ x.t = "object"
    /\ IsArray(Get(x, "columnNames"))
    /\ IsArray(Get(x, "rows"))

\* C24: every value the results-fetch step hands to the summarizer has the
\* canonical shape {columnNames: sequence, rows: sequence}: it is never null or
\* undefined, both fields are present and rows is a sequence, for every provider
\* variant and every provider response.
C24_Canonical == Handed => Canonical(data)

\* what the JSON-RPC variant hands over is an object with both fields, whatever
\* their types
BothFieldsV2 ==
    Handed /\ variant = "FlipsideV2" =>
        /\ data.t = "object"
        /\ ~Nullish(Get(data, "columnNames"))
        /\ ~Nullish(Get(data, "rows"))

\* the rows of a value, where the summarizer of the variant reads them
RowsOf(v, d) ==
    CASE v = "FlipsideV2" -> OptGet(d, "rows")
      [] v = "ShroomDK" -> d
      [] v = "Covalent" -> OptGet(d, "items")

\* the payload holds the first min(n, 50) of the n rows of the data, in their
\* order and as they were
FirstRows(v, before, after) ==
    /\ IsArray(RowsOf(v, after))
    /\ IsArray(RowsOf(v, before)) =>
           Stringify(RowsOf(v, after)) = Stringify(Arr(Slice(RowsOf(v, before).items, 50)))

\* the data handed to a summarizer that samples is longer than the ceiling
Oversized ==
    /\ Handed
    /\ variant \in {"FlipsideV2", "ShroomDK", "Covalent"}
    /\ Len(Stringify(data)) > 5000

\* C25: whenever the serialized data exceeds the length ceiling, the payload put
\* into the summarization prompt consists of the first min(n, 50) rows of the
\* input, in their order and each as it was, with the column names preserved;
\* the payload is in canonical shape where the data was, and it is never the
\* serialized data cut off at a number of characters.
C25_SampledRows ==
    Oversized =>
        /\ dataToSend.t # "string"
        /\ FirstRows(variant, data, dataToSend)
        /\ variant = "FlipsideV2" =>
               Stringify(Get(dataToSend, "columnNames")) = Stringify(Get(data, "columnNames"))
        /\ Canonical(data) => Canonical(dataToSend)

\* the sample is as stated whenever the rows of the data are an array
SampledRowsOfArrays ==
    Oversized /\ IsArray(RowsOf(variant, data)) =>
        /\ FirstRows(variant, data, dataToSend)
        /\ Len(RowsOf(variant, dataToSend).items) = 50
        /\ variant = "FlipsideV2" =>
               Stringify(Get(dataToSend, "columnNames")) = Stringify(Get(data, "columnNames"))

\* the reply to the last call, made through fetchApi, has a status outside the
\* success range (the status call of the ShroomDK function uses fetch itself)
NonSuccessReply ==
    /\ Done
    /\ Len(calls) > 0
    /\ lastReply.net
    /\ ~ResponseOk(lastReply)
    /\ ~(variant = "ShroomDK" /\ Last(calls) = "status")

\* the error fetchApi throws for the reply carries the service name and the
\* HTTP status, and the message that reached the handler is that of this error,
\* not that of the wrapped transport error
ServiceError ==
    LET f == FetchApi(variant, lastReply, "Service")
    IN /\ f.threw
       /\ f.service = "Service"
       /\ f.status = lastReply.status
       /\ Includes(errorMessage, "Error " \o ToString(lastReply.status) \o " from ")
       /\ ~Includes(errorMessage, "API call failed to ")

\* C26: for every response of fetchApi whose HTTP status is outside the success
\* range, whether its body is valid JSON or not, the thrown error carries the
\* service name and the HTTP status and is re-thrown unchanged rather than
\* wrapped as a generic transport error, in every variant of fetchApi.
C26_ServiceError == NonSuccessReply => ServiceError

\* the fetchApi that reads the body once as text throws the service error for
\* every such response
ServiceErrorFromText ==
    NonSuccessReply /\ variant \in {"FlipsideV2", "Mobula"} => ServiceError

\* the fetchApi that reads the body with response.json() throws it when the
\* body is JSON text other than null
ServiceErrorFromJson ==
    /\ NonSuccessReply
    /\ variant \in {"ShroomDK", "Covalent"}
    /\ lastReply.w.json /\ ~Nullish(lastReply.w.data)
    => ServiceError

\* a response with a success status whose parsed body holds an error object
CarriesErrorObject(r) ==
    /\ r.net /\ ResponseOk(r) /\ r.w.json
    /\ OptGet(r.w.data, "error").t = "object"

\* C27: in the JSON-RPC variant, whenever a response has a success HTTP status
\* and its parsed body holds an error object, fetchApi throws an error that
\* carries the code and the data of that object and the service name, the body
\* is not returned to the caller, and the request ends with a 500 response.
C27_JsonRpcError ==
    variant = "FlipsideV2" /\ Len(calls) > 0 /\ CarriesErrorObject(lastReply) =>
        LET e == Get(lastReply.w.data, "error")
            f == FetchApiV2(lastReply, "Service")
            thrown == JsonRpcError(e, "Service")
        IN /\ f.threw /\ f.service = "Service" /\ f.message = thrown.message
           /\ Stringify(thrown.code) = Stringify(Get(e, "code"))
           /\ Stringify(thrown.data) = Stringify(Get(e, "data"))
           /\ Includes(thrown.message, ToStr(Get(e, "code")))
           /\ Done
           /\ response.statusCode = 500
           /\ Includes(errorMessage, thrown.message)

\* the results call of the JSON-RPC variant was answered with an error object
C27_Witness ==
    /\ variant = "FlipsideV2"
    /\ Len(calls) > 0 /\ Last(calls) = "results"
    /\ CarriesErrorObject(lastReply)
    /\ response.statusCode = 500

\* the reply n of the model is the one that arrived, text for text
SameText(n, r) ==
    /\ IsString(CarriedText(EndpointReply(n)))
    /\ CarriedText(EndpointReply(n)).v = CarriedText(r).v

\* C28: in the endpoint-selection variant the text of the generator is parsed in
\* at most two attempts: a strict JSON parse and, only if that fails, exactly one
\* parse of the text without its code fence.  If the strict parse succeeds no
\* second attempt is made; if both fail the generator fails, the handler
\* returns 500, and no data-provider call is issued.
C28_TwoAttempts ==
    [][/\ variant = "Mobula"
       /\ pc = "endpoint"
       /\ pc' # "endpoint"
       /\ IsString(CarriedText(lastReply')) /\ CarriedText(lastReply').v # ""
       => \A n \in 1..12 :
            SameText(n, lastReply') =>
                LET text == Trim(CarriedText(lastReply').v)
                    strict == ParseText(text, EndpointInner(n))
                    cleaned == ParseText(ReplaceJsonFence(text), EndpointInner(n))
                    parsed == EndpointParse(text, EndpointInner(n))
                IN /\ parsed.attempts = (IF strict.ok THEN 1 ELSE 2)
                   /\ parsed.ok = (strict.ok \/ cleaned.ok)
                   /\ strict.ok => Stringify(parsed.data) = Stringify(strict.data)
                   /\ parsed.ok => Stringify(selection') = Stringify(parsed.data)
                   /\ ~strict.ok /\ ~cleaned.ok =>
                          /\ pc' = "done"
                          /\ response'.statusCode = 500
                          /\ errorMessage' = "Gemini output was not valid JSON."
                          /\ calls' = calls]_vars

\* the text of the generator was no JSON with or without its fence, and the
\* request failed before any call of the data provider
C28_Witness ==
    /\ variant = "Mobula"
    /\ Done
    /\ calls = <<"endpoint">>
    /\ errorMessage = "Gemini output was not valid JSON."
    /\ response.statusCode = 500

\* C29: every SQL string convertNLtoSQL returns has had the code fence around
\* it stripped: for every output of the model wrapped in a code fence, with or
\* without a language tag, the query returned neither begins nor ends with a
\* fence marker.
C29_NoFence ==
    IsString(sqlQuery) => ~StartsWith(sqlQuery.v, Fence) /\ ~EndsWith(sqlQuery.v, Fence)

\* a fence tagged sql, in either case, is stripped at both ends
TaggedFenceStripped ==
    [][/\ pc = "generate"
       /\ pc' # "generate"
       /\ IsString(CarriedText(lastReply'))
       /\ \E tag \in {"sql", "SQL", "Sql"} : StartsWith(Trim(CarriedText(lastReply').v), Fence \o tag)
       /\ IsString(sqlQuery')
       => ~StartsWith(sqlQuery'.v, Fence) /\ ~EndsWith(sqlQuery'.v, Fence)]_vars

\* C30: if a status call itself fails during polling (transport error,
\* non-success HTTP status, or a response without a status field), polling
\* stops at once with a failure: the poll is not retried, no wait follows, and
\* no further status call and no results fetch is issued for the job.
C30_NoRetry ==
    [][/\ pc = "status"
       /\ pc' # "status"
       /\ Falsy(ReportedStatus(variant, lastReply'))
       => /\ pc' = "done"
          /\ calls' = calls
          /\ response'.statusCode = 500
          /\ StartsWith(errorMessage', "Polling error for Flipside execution ")]_vars

\* the second status call of a request failed in transport, and the request
\* ended with that call as its last
C30_Witness ==
    /\ Done
    /\ variant = "FlipsideV2"
    /\ Polls(calls) = 2
    /\ Last(calls) = "status"
    /\ ~lastReply.net
    /\ response.statusCode = 500

\* C31: the first status call is issued at once on entering the polling loop;
\* between two consecutive status calls of a job exactly one wait of the poll
\* interval takes place, so that consecutive polls are at least the interval
\* apart; no wait follows a terminal status.
C31_Interval ==
    [][/\ pc = "submit" /\ pc' # "submit" /\ pc' # "done" =>
              pc' = "status" /\ startTime' = now' /\ Polls(calls') = 1
       /\ pc' = "status" /\ pc # "status" => pc \in {"submit", "timer"}
       /\ pc = "status" => Polls(calls') = Polls(calls)
       /\ pc = "timer" =>
              /\ now' >= now + 3000
              /\ pc' \in {"status", "done"}
              /\ pc' = "status" => Polls(calls') = Polls(calls) + 1
       /\ pc' = "timer" => pc = "status" /\ IsPending(variant, lastStatus') /\ now' >= now]_vars

\* the third status call of a job was issued two poll intervals after the first
C31_Witness ==
    /\ pc = "status"
    /\ Polls(calls) = 3
    /\ now - startTime = 6000

\* waitForFlipsideExecution is running
Polling == pc \in {"status", "timer"}

\* C32: the polling loop always terminates.  When every status call returns
\* within MaxCallTime and every wait lasts the poll interval,
\* waitForFlipsideExecution returns or throws no later than ceiling + interval
\* + MaxCallTime after it was entered, whatever the statuses and however many
\* the polls: a status call is issued within the ceiling, its reply arrives
\* within MaxCallTime of that, and the one wait that can follow ends the loop.
C32_Terminates ==
    /\ [][/\ pc' = "status" => now' - startTime' <= 120000
          /\ pc = "status" => now' - now <= MaxCallTime
          /\ pc' = "timer" => now' - startTime' <= 120000 + MaxCallTime
          /\ Polling /\ ~Polling' /\ (pc = "timer" => now' = now + 3000) =>
                 now' - startTime <= 120000 + 3000 + MaxCallTime]_vars
    /\ Polling ~> ~Polling

\* the loop ended with the timeout after a wait that followed a slow status call
C32_Witness ==
    /\ Done
    /\ errorMessage = TimedOutMessage
    /\ slow > 0
    /\ now - startTime > 123000

\* the number of calls of the stages in the set that the handler has issued
Issues(cs, stages) == Cardinality({i \in 1..Len(cs) : cs[i] \in stages})

\* the stages that call the LLM: convertNLtoSQL, mapSQLtoCovalentApi,
\* getModulaEndpointAndParams and the summarizers
LlmStages == {"generate", "map", "endpoint", "summarize"}

\* the stages that hand the generated query to the data provider
SubmitStages == {"submit", "execute", "call"}

\* C33: per request, the generated query is submitted to the data provider at
\* most once and the LLM is called at most twice, in every provider variant.
C33_CallBudget ==
    /\ Issues(calls, SubmitStages) <= 1
    /\ Issues(calls, LlmStages) <= 2

\* the budget holds in the variants other than Covalent, and Covalent calls
\* the LLM at most three times
CallBudgetButCovalent ==
    /\ Issues(calls, SubmitStages) <= 1
    /\ Issues(calls, LlmStages) <= IF variant = "Covalent" THEN 3 ELSE 2

\* C34: the results fetch is issued at most once per request, and only in the
\* step from the reply to the most recent status call, when that call returned
\* (it did not throw) the success status of the variant; no results fetch follows
\* a timeout, a failure status, an unknown status or a failed status call, all
\* of which end the request with an error.
C34_ResultsFetch ==
    [][/\ Issues(calls', {"results"}) <= 1
       /\ Issues(calls', {"results"}) > Issues(calls, {"results"}) =>
              /\ pc = "status"
              /\ Last(calls) = "status"
              /\ ~GetFlipsideQueryStatus(variant, lastReply').threw
              /\ IsString(lastStatus')
              /\ lastStatus'.v \in Succeeded(variant)
              /\ errorMessage' = errorMessage
       /\ errorMessage # errorMessage' => calls' = calls]_vars

\* the results were fetched after a wait, in the ShroomDK function
C34_Witness ==
    /\ variant = "ShroomDK"
    /\ Issued("results")
    /\ Polls(calls) > 1

\* the items a mapping can declare missing, and the words that name them
ItemNames ==
    [requires_address |-> "a wallet address",
     requires_contract |-> "a contract address",
     requires_token_id |-> "a token ID"]

\* the generator of the Mobula function returned can_query false
CannotQuery == variant = "Mobula" /\ Get(selection, "can_query") = Bool("false")

\* the generator of the Covalent function returned a mapping with an item missing
ItemMissing ==
    /\ variant = "Covalent"
    /\ \E k \in DOMAIN ItemNames : Get(selection, k) = Bool("true")

\* the insight of the response the handler returned
ReturnedInsight == Get(ResponseJson(response).data, "insight")

CannotQueryWithMessage ==
    /\ Done
    /\ CannotQuery
    /\ IsString(ReturnedInsight)
    /\ ReturnedInsight.v = "I can only answer market questions."

\* the status codes of the responses of the handler
StatusCodes == {200, 400, 405, 500}

\* C36: the handler is total.  For every event (any method, any body, any
\* question) and every behaviour of the services, the handler either awaits
\* the call or the timer it started last, or it has returned a response whose
\* statusCode is 200, 400, 405 or 500: no step leaves it without a response and
\* without a pending call, which is what a rejected promise would be.
C36_Total ==
    /\ pc \in {"start", "timer", "done"} \cup {Stages(variant)[i] : i \in 1..Len(Stages(variant))}
    /\ pc \notin {"start", "timer", "done"} => Len(calls) > 0 /\ Last(calls) = pc
    /\ pc = "timer" => variant \in Flipside /\ Last(calls) = "status"
    /\ Done <=> response.statusCode # NoResponse.statusCode
    /\ Done => response.statusCode \in StatusCodes

\* the Mobula function answered 500 after a call that failed in transport
C36_Witness ==
    /\ Done
    /\ variant = "Mobula"
    /\ response.statusCode = 500
    /\ ~lastReply.net
    /\ Len(calls) > 1

\* the handler answered 400 to an event whose body is null
NullBodyAnswered == Done /\ EventBody(eventBody).kind = "null" /\ response.statusCode = 400

\* the stage the handler awaited last returned, on the reply it got
LastStageReturned ==
    /\ Len(calls) > 0
    /\ LET stage == Last(calls)
       IN IF stage = "summarize" THEN ~Summarize(variant, lastReply).threw
          ELSE IF stage = "results" THEN ~GetFlipsideQueryResults(variant, lastReply).threw
          ELSE IF stage = "execute" THEN ~ExecuteCovalentApiCall(selection, lastReply).threw
          ELSE IF stage = "call" THEN ~CallModulaApi(lastReply).threw
          ELSE IF stage \in {"map", "endpoint"} THEN selection.t = "object"
          ELSE FALSE

\* the insight is the message of an error
IsErrorInsight(x) == IsString(x) /\ StartsWith(x.v, "ChainSage Error: ")

SummaryAnswered ==
    /\ Done
    /\ response.statusCode = 200
    /\ Issued("summarize")
    /\ IsString(ReturnedInsight)

(***************************************************************************)
(* spellbook.js: the page that keeps the conversation.  A call of askWizard *)
(* runs up to its fetch, then up to response.json(), then to its end; the   *)
(* steps of two calls interleave.                                          *)
(***************************************************************************)
\* the variables of the functions
backend == <<variant, httpMethod, eventBody, pc, now, slow, startTime, question, sqlQuery,
             queryRunId, selection, data, dataToSend, calls, lastReply, lastStatus,
             observed, errorMessage, response, inv, moduleScope>>

\* what the user types
SpellQuestions == {"", " ", "gm", "wen moon"}

\* what fetch() yields to the page
SpellReplies == 1..10
SpellReply(n) ==
    CASE n = 1 -> NetFail
      [] n = 2 -> Ok200(Object(<<F("insight", Str("ETH trades at 1800 USD."))>>))
      [] n = 3 -> Ok200(Object(<<F("insight", Str(""))>>))
      [] n = 4 -> Ok200(Object(<<>>))
      [] n = 5 -> Ok200(Null)
      [] n = 6 -> Ok200(Object(<<F("insight", Num("42"))>>))
      [] n = 7 -> Http(200, "OK", PlainText("<html>"))
      [] n = 8 -> Http(400, "Bad Request", JsonText(Object(<<
                      F("error", Str("Invalid or missing 'question' in request body."))>>)))
      [] n = 9 -> Http(500, "Internal Server Error", JsonText(Object(<<
                      F("insight", Str("ChainSage Error: Gemini output was not valid JSON."))>>)))
      [] OTHER -> Http(502, "Bad Gateway", PlainText("Bad Gateway"))

\* { role: role, content: content }
HistoryEntry(role, content) == Object(<<F("role", Str(role)), F("content", content)>>)

\* body: JSON.stringify({ history: chatHistory })
HistoryBody(history) == JsonText(Object(<<F("history", Arr(history))>>))

\* the body the other frontends send: JSON.stringify({ question: question })
QuestionBody(q) == JsonText(Object(<<F("question", Str(q))>>))

\* appendChat(userText, wizardText), by the call c
AppendChat(log, userText, wizardText, c) ==
    log \o (IF ~Falsy(userText)
            THEN <<[className |-> "chat-message user-message",
                    html |-> "You: " \o ToStr(userText), by |-> c]>>
            ELSE <<>>)
        \o (IF ~Falsy(wizardText)
            THEN <<[className |-> "chat-message wizard-message",
                    html |-> "ChainSage: " \o ToStr(wizardText), by |-> c]>>
            ELSE <<>>)

\* chatLog.querySelectorAll('.chat-message.error-message').forEach(msg => msg.remove())
NotAnErrorMessage(m) == m.className # "chat-message error-message"
RemoveErrorMessages(log) == SelectSeq(log, NotAnErrorMessage)

\* the finally block: the wizard message that is the last child of the log is
\* removed when it contains 'Casting spell...'
RemoveCasting(log, c) ==
    IF /\ Len(log) > 0
       /\ log[Len(log)].className = "chat-message wizard-message"
       /\ Includes(log[Len(log)].html, "Casting spell...")
    THEN SubSeq(log, 1, Len(log) - 1)
    ELSE log

\* a page that records every insight, empty or not
WizardMessageWhateverTheInsight(result) == <<HistoryEntry("model", Get(result, "insight"))>>

\* if (result.insight) { wizardMessage = { role: 'model', content: result.insight }; ... }
WizardMessage(result) ==
    IF ~Falsy(Get(result, "insight"))
    THEN <<HistoryEntry("model", Get(result, "insight"))>>
    ELSE <<>>

\* await response.json()
SpellJson(r) ==
    IF ~r.w.json THEN Thrown(SyntaxErrorMessage(Raw(r.w)), "", 0) ELSE Returned(r.w.data)

\* askWizard after response.json(): the entries it pushes and the text it appends
AfterJson(r) ==
    LET parsed == SpellJson(r)
        ok == r.status >= 200 /\ r.status <= 299
    IN IF parsed.threw
       THEN [entries |-> <<>>, text |-> Str(OracleUnreachable(parsed.message))]
       ELSE IF Nullish(parsed.data)
       THEN [entries |-> <<>>,
             text |-> Str(OracleUnreachable(
                          TypeErrorMessage(parsed.data, IF ok THEN "insight" ELSE "error")))]
       ELSE IF ~ok
       THEN [entries |-> <<>>,
             text |-> Str(OracleError(ToStr(Or(Get(parsed.data, "error"),
                          Str("Proxy function returned error status: " \o ToString(r.status))))))]
       ELSE IF Len(WizardMessage(parsed.data)) > 0
       THEN [entries |-> WizardMessage(parsed.data), text |-> Get(parsed.data, "insight")]
       ELSE [entries |-> WizardMessage(parsed.data),
             text |-> Str("Received an unexpected response format from the Oracle.")]

\* askWizard(q), up to its fetch
AskWizard(c, q) ==
    /\ asking[c].pc = "idle"
    /\ UNCHANGED backend
    /\ IF q = "" \/ Trim(q) = ""
       THEN /\ asking' = [asking EXCEPT ![c] = [@ EXCEPT !.pc = "done", !.question = q]]
            /\ UNCHANGED <<chatHistory, chatLog>>
       ELSE /\ chatHistory' = Append(chatHistory, HistoryEntry("user", Str(q)))
            /\ chatLog' = AppendChat(AppendChat(RemoveErrorMessages(chatLog), Str(q), Null, c),
                                     Null, Str("Casting spell..."), c)
            /\ asking' = [asking EXCEPT ![c] = [pc |-> "fetch", question |-> q,
                                                sent |-> HistoryBody(chatHistory'),
                                                reply |-> NetFail]]

\* fetch() settles: the catch block when it rejected, response.json() otherwise
FetchSettles(c, n) ==
    /\ asking[c].pc = "fetch"
    /\ UNCHANGED <<backend, chatHistory>>
    /\ IF ~SpellReply(n).net
       THEN /\ chatLog' = RemoveCasting(AppendChat(chatLog, Null,
                                            Str(OracleUnreachable("Failed to fetch")), c), c)
            /\ asking' = [asking EXCEPT ![c].pc = "done"]
       ELSE /\ chatLog' = chatLog
            /\ asking' = [asking EXCEPT ![c].pc = "json", ![c].reply = SpellReply(n)]

\* response.json() settles, and askWizard runs to its end
JsonSettles(c) ==
    /\ asking[c].pc = "json"
    /\ UNCHANGED backend
    /\ chatHistory' = chatHistory \o AfterJson(asking[c].reply).entries
    /\ chatLog' = RemoveCasting(AppendChat(chatLog, Null, AfterJson(asking[c].reply).text, c), c)
    /\ asking' = [asking EXCEPT ![c].pc = "done"]

InitSpellbook == Init /\ variant = "Mobula" /\ httpMethod = "POST" /\ eventBody = 18

NextSpellbook ==
    \E c \in Asks :
        \/ \E q \in SpellQuestions : AskWizard(c, q)
        \/ \E n \in SpellReplies : FetchSettles(c, n)
        \/ JsonSettles(c)

SpecSpellbook == InitSpellbook /\ [][NextSpellbook]_vars

\* the call c sent its request
Sent(c) == asking[c].pc \in {"fetch", "json", "done"} /\ asking[c].sent.json

\* the body passes the validation of the function, and the question is q
PassesValidation(w, q) ==
    LET body == ParseBody([kind |-> "text", w |-> w])
    IN /\ ~body.threw
       /\ ~InvalidQuestion(body.question)
       /\ body.question = Str(q)

\* C38: every request askWizard sends passes the validation of the function:
\* its JSON body has a question field that holds the non-empty string the user
\* asked, in every frontend, spellbook.js included.
C38_RequestValid ==
    \A c \in Asks : Sent(c) => PassesValidation(asking[c].sent, asking[c].question)

\* the body of the other frontends, { question }, passes the validation for
\* every question the page sends
QuestionBodyValid ==
    \A c \in Asks : Sent(c) => PassesValidation(QuestionBody(asking[c].question), asking[c].question)

\* the indicator of the call c is in the log
Casting(c) ==
    \E i \in 1..Len(chatLog) :
        /\ chatLog[i].by = c
        /\ chatLog[i].className = "chat-message wizard-message"
        /\ Includes(chatLog[i].html, "Casting spell...")

\* C39: the "Casting spell..." indicator that askWizard appends when it starts
\* is removed once the call completes, whether the call succeeded, got a non-OK
\* response or failed in transport.
C39_IndicatorRemoved ==
    \A c \in Asks : asking[c].pc = "done" => ~Casting(c)

\* the indicator of a call that sent its request is in the log from then on
IndicatorStays == \A c \in Asks : Sent(c) => Casting(c)

\* the entries of a role in a history
OfRole(history, role) ==
    Cardinality({i \in 1..Len(history) : Get(history[i], "role") = Str(role)})

\* C40: chatHistory is append-only under every interleaving of the calls of
\* askWizard.  A call with a question that is not blank appends exactly one user
\* entry, the question, in the step that sends its request, and the body of the
\* request holds it; a call appends at most one model entry, in its last step
\* and only when the response is OK and carries a non-empty insight; a response
\* that failed or is malformed appends nothing.
C40_AppendOnly ==
    [][/\ IsPrefix(chatHistory, chatHistory')
       /\ Len(chatHistory') <= Len(chatHistory) + 1
       /\ \A c \in Asks :
              /\ asking[c].pc = "idle" /\ asking'[c].pc = "fetch" =>
                     /\ chatHistory' = Append(chatHistory,
                                              HistoryEntry("user", Str(asking'[c].question)))
                     /\ asking'[c].sent = HistoryBody(chatHistory')
              /\ asking[c].pc = "idle" /\ asking'[c].pc = "done" =>
                     /\ Trim(asking'[c].question) = ""
                     /\ chatHistory' = chatHistory
              /\ asking[c].pc = "idle" /\ asking'[c].pc # "idle" /\ Trim(asking'[c].question) # "" =>
                     asking'[c].pc = "fetch"
              /\ asking[c].pc = "fetch" /\ asking'[c].pc # "fetch" => chatHistory' = chatHistory
              /\ asking[c].pc = "json" /\ asking'[c].pc = "done" =>
                     LET r == asking[c].reply
                         insight == Get(r.w.data, "insight")
                     IN IF r.status \in 200..299 /\ r.w.json /\ ~Falsy(insight)
                        THEN chatHistory' = Append(chatHistory, HistoryEntry("model", insight))
                        ELSE chatHistory' = chatHistory
       /\ OfRole(chatHistory', "user") = Cardinality({c \in Asks : Sent(c)'})
       /\ OfRole(chatHistory', "model") <=
              Cardinality({c \in Asks : asking'[c].pc = "done" /\ asking'[c].reply.net})]_vars

\* two calls interleaved: both questions are in the history before either
\* answer, and both answers follow
C40_Witness ==
    /\ Len(chatHistory) = 4
    /\ Get(chatHistory[1], "role") = Str("user")
    /\ Get(chatHistory[2], "role") = Str("user")
    /\ Get(chatHistory[3], "role") = Str("model")
    /\ Get(chatHistory[4], "role") = Str("model")
    /\ \A c \in Asks : asking[c].pc = "done"

====
